---- MODULE Spec2Model ----
(***************************************************************************)
(* Per-user allocation of question sets with cache eviction, as            *)
(* implemented by QueueManager (redis-queue/queue-manager.js) on top of a  *)
(* Redis store.  Every Redis round trip of an operation is one step, so    *)
(* that calls of different request handlers interleave between round       *)
(* trips exactly as the awaits of the code allow.                          *)
(*                                                                         *)
(* On top of it: SetsAllocator.allocateSetsForUser, which allocates one    *)
(* set per requested category, and the builder generateQuestionSets, which *)
(* partitions the questions of each category into sets, stores them in the *)
(* set catalog and enqueues them in the pool.                              *)
(*                                                                         *)
(* Beside them: storeQuestions (the ingest of questions),                  *)
(* triggerCacheEvictionForUser, QuestionsMerger.getOrAllocateSetForUser,   *)
(* SetsAllocator.checkAvailability, and the builders of the Redis keys of  *)
(* the ledger.                                                             *)
(*                                                                         *)
(* Time is counted in calendar months: Date.setMonth(getMonth() - k) is a  *)
(* shift by k units of the clock.                                          *)
(***************************************************************************)
EXTENDS Integers, Sequences, FiniteSets, TLC

(***************************************************************************)
(* Bounds of the model.                                                    *)
(***************************************************************************)
Users == {"u1", "u2"}
Cats == {"c1", "c2"}
Procs == {1, 2}
CapChoices == {1}
AgeChoices == {1}
MaxSetIds == 3
MaxBatch == 2
MaxTime == 2
MaxEvicted == 2
MaxOverlaps == 1
MaxCategories == 2
MaxHanded == 4
Builders == {1, 2}
MaxItems == 4
MaxNumSets == 2
MaxPerSet == 2
MaxQuestions == 3

(***************************************************************************)
(* Program constants: the defaults of QueueManager.CACHE_CONFIG.           *)
(***************************************************************************)
DEFAULT_MAX_SETS_PER_CATEGORY == 10
DEFAULT_MAX_AGE_MONTHS == 2

VARIABLES
  now,               \* the wall clock (new Date()), in months
  CACHE_CONFIG,      \* QueueManager.CACHE_CONFIG (static, runtime-mutable)
  nextId,            \* the next fresh set id (uuidv4 of the set builder)
  queue,             \* Redis list  question_sets:queue:<category>, head first
  queueMeta,         \* Redis hash  question_sets:meta:<category>
  userAllocations,   \* Redis hash  user_allocations:<user>  (category -> list)
  userMeta,          \* Redis hash  user_allocations:meta:<user>
  userTimestamps,    \* Redis hash  user_allocations:<user>:timestamps
  pc,                \* per request handler: the round trip it is about to make
  frame,             \* per request handler: the local variables of its call
  snap,              \* per request handler: the user's record and the pool when its call began
  overlap,           \* per request handler: the handlers whose call overlapped its call
  overlaps,          \* the number of calls that began while another call was in progress
  isInitialized,     \* SetsAllocator.isInitialized
  results,           \* SetsAllocator.allocateSetsForUser: its locals and its position
  handed,            \* per user and category: the set ids allocations have returned, in order
  questionsTable,    \* DynamoDB table questions: per category, the ids of its questions
  catalog,           \* DynamoDB table question_sets: the set items, in the order of their puts
  bpc,               \* per build request: the position of generateQuestionSets
  bframe,            \* per build request: the local variables of generateQuestionSets
  hashIndex,         \* DynamoDB table questions through hash-index: per hash, the number of its items
  sq,                \* storeQuestions: its position and its local variables
  evictionSummary,   \* triggerCacheEvictionForUser: its position and its local variables
  keyspace,          \* Redis keys of the ledger: the pairs of a key and a user id whose calls use it
  availability       \* SetsAllocator.checkAvailability: its position, its locals and its result

store == <<queue, queueMeta, userAllocations, userMeta, userTimestamps>>
ledger == <<userAllocations, userMeta, userTimestamps>>
pool == <<queue, queueMeta>>
vars == <<now, CACHE_CONFIG, nextId, queue, queueMeta, userAllocations, userMeta,
          userTimestamps, pc, frame, snap, overlap, overlaps, isInitialized, results,
          handed, questionsTable, catalog, bpc, bframe, hashIndex, sq, evictionSummary,
          keyspace, availability>>

\* the state of the ingest of questions
ingest == <<hashIndex, sq>>

\* the state beyond the QueueManager's calls, the allocator and the builder
elsewhere == <<ingest, evictionSummary, keyspace, availability>>

\* the state beyond the QueueManager and its request handlers
\* the state of the set builder
builder == <<questionsTable, catalog, bpc, bframe>>

beyondLedger == <<isInitialized, results, handed, builder>>

(***************************************************************************)
(* Sequences and Redis hashes.                                             *)
(***************************************************************************)
Range(s) == {s[i] : i \in 1..Len(s)}

\* Array.prototype.includes
Includes(s, x) == \E i \in 1..Len(s) : s[i] = x

\* Array.prototype.filter(x => !other.includes(x))
FilterNotIn(s, other) == SelectSeq(s, LAMBDA x : ~Includes(other, x))

Reverse(s) == [i \in 1..Len(s) |-> s[Len(s) + 1 - i]]

EmptyHash == [f \in {} |-> 0]

\* HSET key field value [field value ...]
HSet(h, upd) ==
  [f \in (DOMAIN h) \cup (DOMAIN upd) |-> IF f \in DOMAIN upd THEN upd[f] ELSE h[f]]

\* HDEL key field [field ...]
HDel(h, fields) == [f \in (DOMAIN h) \ fields |-> h[f]]

\* the field names of the metadata hash: `${categoryId}_count` and so on;
\* the hash-wide last_updated has no category prefix
MetaField(c, name) == <<c, name>>
LastUpdatedField == <<"", "last_updated">>

\* the field name of a timestamp: `${categoryId}:${setId}`
TsField(c, s) == <<c, s>>

(***************************************************************************)
(* The pure parts of QueueManager.                                         *)
(***************************************************************************)

\* getUserCategoryAllocations: the parsed list of the category, [] when the
\* hash has no such field
GetUserCategoryAllocations(h, c) == IF c \in DOMAIN h THEN h[c] ELSE <<>>

\* (mutant) every element is pushed twice
LPushTwice(list, setIds) == Reverse(setIds) \o Reverse(setIds) \o list

\* LPUSH key e1 e2 ...: each element in turn becomes the new head
LPush(list, setIds) == Reverse(setIds) \o list

\* LRANGE key 0 -1: the whole list, head first
LRangeAll(list) == list

\* (mutant) the head of the pool is handed out whether or not the user has it
NextSetHead(availableSets, allocated) ==
  IF Len(availableSets) > 0 THEN availableSets[1] ELSE 0

\* availableSets.find(setId => !userAllocations.includes(setId)); 0 is undefined
NextSet(availableSets, allocated) ==
  LET idx == {i \in 1..Len(availableSets) : ~Includes(allocated, availableSets[i])}
  IN  IF idx = {} THEN 0
      ELSE availableSets[CHOOSE i \in idx : \A j \in idx : i <= j]

\* twoMonthsAgo.setMonth(twoMonthsAgo.getMonth() - MAX_AGE_MONTHS)
TwoMonthsAgo(t, months) == t - months

\* (mutant) the newest sets are taken as the excess: slice(-excessCount)
ExcessSetsNewest(currentAllocations, maxSets) ==
  IF Len(currentAllocations) > maxSets
    THEN SubSeq(currentAllocations, maxSets + 1, Len(currentAllocations))
    ELSE <<>>

\* Rule 1: the excess sets, currentAllocations.slice(0, excessCount)
ExcessSets(currentAllocations, maxSets) ==
  IF Len(currentAllocations) > maxSets
    THEN SubSeq(currentAllocations, 1, Len(currentAllocations) - maxSets)
    ELSE <<>>

\* (mutant) a set one unit older than the horizon is not yet aged
IsAgedLenient(allocationDate, horizon) == allocationDate < horizon - 1

\* (mutant) a set assigned exactly at the horizon is aged too
IsAgedInclusive(allocationDate, horizon) == allocationDate <= horizon

\* allocationDate < twoMonthsAgo
IsAged(allocationDate, horizon) == allocationDate < horizon

\* Rule 2: the loop over currentAllocations from index i on, pushing onto setsToRemove
RECURSIVE AgeRule(_, _, _, _, _, _)
AgeRule(currentAllocations, i, c, timestamps, horizon, setsToRemove) ==
  IF i > Len(currentAllocations) THEN setsToRemove
  ELSE LET setId == currentAllocations[i]
           marked == Includes(setsToRemove, setId)
           aged == /\ TsField(c, setId) \in DOMAIN timestamps
                   /\ IsAged(timestamps[TsField(c, setId)], horizon)
       IN  AgeRule(currentAllocations, i + 1, c, timestamps, horizon,
                   IF ~marked /\ aged THEN Append(setsToRemove, setId) ELSE setsToRemove)

\* setsToRemove after both rules
SetsToRemove(currentAllocations, c, timestamps, horizon, maxSets) ==
  AgeRule(currentAllocations, 1, c, timestamps, horizon,
          ExcessSets(currentAllocations, maxSets))

\* (mutant) the list is written back as it was found
RemainingSetsAll(currentAllocations, setsToRemove) == currentAllocations

\* remainingSets = currentAllocations.filter(setId => !setsToRemove.includes(setId))
RemainingSets(currentAllocations, setsToRemove) ==
  FilterNotIn(currentAllocations, setsToRemove)

\* (mutant) the set is pushed without looking at the list
AlreadyAllocatedNever(currentAllocations, setId) == FALSE

\* currentAllocations.includes(setId) in addUserCategoryAllocationWithTimestamp
AlreadyAllocated(currentAllocations, setId) == Includes(currentAllocations, setId)

(***************************************************************************)
(* Request handlers.                                                       *)
(***************************************************************************)
IdleFrame ==
  [op |-> "none", userId |-> "", categoryId |-> "", setIds |-> <<>>,
   currentAllocations |-> <<>>, setsToRemove |-> <<>>, twoMonthsAgo |-> <<>>,
   evictedCount |-> 0, userAllocations |-> <<>>, nextSet |-> 0,
   removedCount |-> 0, removedSets |-> <<>>, totalAvailable |-> 0, retKind |-> "none", retValue |-> 0]

NoSnap ==
  [allocations |-> EmptyHash, meta |-> EmptyHash, timestamps |-> EmptyHash,
   queue |-> <<>>, queueMeta |-> <<>>]

SnapOf(u) ==
  [allocations |-> userAllocations[u], meta |-> userMeta[u],
   timestamps |-> userTimestamps[u], queue |-> queue, queueMeta |-> queueMeta]

InFlight(p) == pc[p] \notin {"idle", "done"}

\* generateQuestionSets before a request: no locals
IdleBuild ==
  [numSetsPerCategory |-> 0, questionsPerSet |-> 0, setTracker |-> FALSE, ci |-> 0,
   lastReadQuestionId |-> 0, questions |-> <<>>, sets |-> <<>>, lastQuestionUsed |-> 0,
   setIndex |-> 0, storedSets |-> <<>>, overlapped |-> FALSE, outcome |-> "none"]

\* empty tables, no build request
InitBuilder ==
  /\ questionsTable = [c \in Cats |-> {}]
  /\ catalog = <<>>
  /\ bpc = [b \in Builders |-> "idle"]
  /\ bframe = [b \in Builders |-> IdleBuild]

\* the hashes of the question titles (generateQuestionHash)
Hashes == {"h1", "h2", "h3"}

\* storeQuestions before a call: no locals
IdleStore ==
  [pc |-> "idle", preparedQuestions |-> <<>>, i |-> 0, uniqueQuestions |-> <<>>,
   skippedCount |-> 0, before |-> <<>>,
   results |-> [total |-> 0, stored |-> 0, skipped |-> 0, failed |-> 0]]

\* an empty questions table, no call of storeQuestions
InitIngest ==
  /\ hashIndex = [h \in Hashes |-> 0]
  /\ sq = IdleStore

\* triggerCacheEvictionForUser before a call: no locals
IdleSummary ==
  [pc |-> "idle", userId |-> "", allocations |-> EmptyHash, pending |-> {},
   categoryId |-> "", categoriesProcessed |-> 0, totalRemoved |-> 0,
   categoryResults |-> EmptyHash, timestamps |-> EmptyHash]

\* SetsAllocator before a call of checkAvailability: no locals, no result
IdleCheck ==
  [pc |-> "idle", userId |-> "", categoryId |-> "", userAllocations |-> <<>>,
   totalAvailable |-> 0, userAllocated |-> 0, newAvailable |-> 0, hasNewSets |-> FALSE,
   before |-> <<>>]

\* SetsAllocator before a call of allocateSetsForUser: no results object
IdleResults ==
  [pc |-> "idle", userId |-> "", categoryIds |-> <<>>, i |-> 0,
   successful |-> EmptyHash, failed |-> EmptyHash,
   requested |-> 0, nSuccessful |-> 0, nFailed |-> 0, calls |-> <<>>]

\* new SetsAllocator()
InitAllocator ==
  /\ isInitialized = FALSE
  /\ results = IdleResults

Init ==
  /\ now = 0
  /\ CACHE_CONFIG = [MAX_SETS_PER_CATEGORY |-> DEFAULT_MAX_SETS_PER_CATEGORY,
                     MAX_AGE_MONTHS |-> DEFAULT_MAX_AGE_MONTHS]
  /\ nextId = 1
  /\ queue = [c \in Cats |-> <<>>]
  /\ queueMeta = [c \in Cats |-> EmptyHash]
  /\ userAllocations = [u \in Users |-> EmptyHash]
  /\ userMeta = [u \in Users |-> EmptyHash]
  /\ userTimestamps = [u \in Users |-> EmptyHash]
  /\ pc = [p \in Procs |-> "idle"]
  /\ frame = [p \in Procs |-> IdleFrame]
  /\ snap = [p \in Procs |-> NoSnap]
  /\ overlap = [p \in Procs |-> {}]
  /\ overlaps = 0
  /\ InitAllocator
  /\ handed = [u \in Users |-> [c \in Cats |-> <<>>]]
  /\ InitBuilder
  /\ InitIngest
  /\ evictionSummary = IdleSummary
  /\ keyspace = {}
  /\ availability = IdleCheck

\* what is left of a frame when the call has returned: the arguments, the
\* eviction results and the return value
Returned(f, kind, value) ==
  [IdleFrame EXCEPT !.op = f.op, !.userId = f.userId, !.categoryId = f.categoryId,
                    !.removedCount = f.removedCount, !.removedSets = f.removedSets,
                    !.retKind = kind, !.retValue = value]

\* the handler moves on to its next round trip with new locals
Goto(p, next, f) ==
  /\ pc' = [pc EXCEPT ![p] = next]
  /\ frame' = [frame EXCEPT ![p] = f]

\* a call begins: serial calls wait until no other call is in flight
\* (a call has no identity of its own: it takes the first free handler)
Begin(p, serial, first, f, s) ==
  /\ pc[p] = "idle"
  /\ serial => \A q \in Procs : pc[q] = "idle"
  /\ \A q \in Procs : q < p => pc[q] # "idle"
  /\ IF \E q \in Procs : pc[q] # "idle"
       THEN overlaps < MaxOverlaps /\ overlaps' = overlaps + 1
       ELSE overlaps' = overlaps
  /\ Goto(p, first, f)
  /\ snap' = [snap EXCEPT ![p] = s]
  /\ overlap' = [q \in Procs |->
                   IF q = p THEN {r \in Procs \ {p} : InFlight(r)}
                   ELSE IF InFlight(q) THEN overlap[q] \cup {p}
                   ELSE overlap[q] \ {p}]
  /\ UNCHANGED <<now, CACHE_CONFIG, store>>

\* the awaiting caller resumes with the result of a finished call
Taken(p) ==
  /\ pc[p] = "done"
  /\ Goto(p, "idle", IdleFrame)
  /\ snap' = [snap EXCEPT ![p] = NoSnap]
  /\ overlap' = [q \in Procs |-> IF q = p THEN {} ELSE overlap[q] \ {p}]
  /\ UNCHANGED <<now, CACHE_CONFIG, nextId, store, overlaps>>

\* the caller takes the result of a finished call
Return(p) ==
  /\ Taken(p)
  /\ UNCHANGED <<beyondLedger, elsewhere>>

\* the caller takes the result of a finished call and keeps the set id it was given
ReturnHanded(p) ==
  /\ Taken(p)
  /\ handed' =
       IF frame[p].op = "allocate" /\ frame[p].retKind = "set"
         THEN [handed EXCEPT ![frame[p].userId][frame[p].categoryId] =
                 Append(@, frame[p].retValue)]
         ELSE handed
  /\ UNCHANGED <<isInitialized, results, builder, elsewhere>>

\* a round trip (or the isConnected check) throws: the call rethrows
Fail(p) ==
  /\ InFlight(p)
  /\ Goto(p, "done", Returned(frame[p], "error", 0))
  /\ UNCHANGED <<elsewhere, now, CACHE_CONFIG, nextId, store, snap, overlap, overlaps, beyondLedger>>

(***************************************************************************)
(* applyCacheEvictionWithTimestamps(userId, categoryId), on its own        *)
(* (op "evict") or as the first part of getNextAvailableSetForUser         *)
(* (op "allocate").                                                        *)
(***************************************************************************)
BeginEvict(p, serial, U, C) ==
  \E u \in U, c \in C :
    /\ UNCHANGED <<nextId, beyondLedger, elsewhere>>
    /\ Begin(p, serial, "ev_list",
             [IdleFrame EXCEPT !.op = "evict", !.userId = u, !.categoryId = c],
             SnapOf(u))

\* applyCacheEvictionWithTimestamps returns evictionResults (its locals are
\* gone): the allocation (called directly or by the merger) goes on to read
\* the list, the standalone call is finished
EvictionReturns(p, f, removedSets) ==
  LET g == [f EXCEPT !.currentAllocations = <<>>, !.setsToRemove = <<>>,
                     !.twoMonthsAgo = <<>>, !.evictedCount = 0,
                     !.removedCount = Len(removedSets), !.removedSets = removedSets]
  IN  IF f.op \in {"allocate", "merge"}
        THEN Goto(p, "al_list", g)
        ELSE Goto(p, "done", Returned(g, "ok", 0))

\* currentAllocations = await getUserCategoryAllocations(...); [] returns at once
EvList(p) ==
  /\ pc[p] = "ev_list"
  /\ LET f == frame[p]
         cur == GetUserCategoryAllocations(userAllocations[f.userId], f.categoryId)
         g == [f EXCEPT !.currentAllocations = cur]
     IN  IF cur = <<>> THEN EvictionReturns(p, g, <<>>) ELSE Goto(p, "ev_ts", g)
  /\ UNCHANGED <<elsewhere, now, CACHE_CONFIG, nextId, store, snap, overlap, overlaps, beyondLedger>>

\* twoMonthsAgo, rule 1, timestamps = await hGetAll(timestampKey), rule 2
EvTs(p) ==
  /\ pc[p] = "ev_ts"
  /\ LET f == frame[p]
         horizon == TwoMonthsAgo(now, CACHE_CONFIG.MAX_AGE_MONTHS)
         rem == SetsToRemove(f.currentAllocations, f.categoryId,
                             userTimestamps[f.userId], horizon,
                             CACHE_CONFIG.MAX_SETS_PER_CATEGORY)
         g == [f EXCEPT !.twoMonthsAgo = <<horizon>>, !.setsToRemove = rem]
     IN  IF Len(rem) > 0 THEN Goto(p, "ev_wlist", g) ELSE EvictionReturns(p, g, <<>>)
  /\ UNCHANGED <<elsewhere, now, CACHE_CONFIG, nextId, store, snap, overlap, overlaps, beyondLedger>>

\* (mutant) the list is written even when no set remains
EvWListAlways(p) ==
  /\ pc[p] = "ev_wlist"
  /\ LET f == frame[p]
         remainingSets == RemainingSets(f.currentAllocations, f.setsToRemove)
     IN  userAllocations' =
           [userAllocations EXCEPT ![f.userId] =
              HSet(@, [x \in {f.categoryId} |-> remainingSets])]
  /\ Goto(p, "ev_wts", frame[p])
  /\ UNCHANGED <<elsewhere, now, CACHE_CONFIG, nextId, queue, queueMeta, userMeta,
                 userTimestamps, snap, overlap, overlaps, beyondLedger>>

\* hSet(userKey, categoryId, remainingSets), or hDel when none remains
EvWList(p) ==
  /\ pc[p] = "ev_wlist"
  /\ LET f == frame[p]
         remainingSets == RemainingSets(f.currentAllocations, f.setsToRemove)
         h == userAllocations[f.userId]
     IN  userAllocations' =
           [userAllocations EXCEPT ![f.userId] =
              IF Len(remainingSets) > 0
                THEN HSet(h, [x \in {f.categoryId} |-> remainingSets])
                ELSE HDel(h, {f.categoryId})]
  /\ Goto(p, "ev_wts", frame[p])
  /\ UNCHANGED <<elsewhere, now, CACHE_CONFIG, nextId, queue, queueMeta, userMeta,
                 userTimestamps, snap, overlap, overlaps, beyondLedger>>

\* (mutant) the timestamps of the evicted sets are left in the hash
EvWTsKeep(p) ==
  /\ pc[p] = "ev_wts"
  /\ Goto(p, "ev_rcnt", frame[p])
  /\ UNCHANGED <<elsewhere, now, CACHE_CONFIG, nextId, store, snap, overlap, overlaps, beyondLedger>>

\* hDel(timestampKey, ...timestampKeysToRemove)
EvWTs(p) ==
  /\ pc[p] = "ev_wts"
  /\ LET f == frame[p]
     IN  userTimestamps' =
           [userTimestamps EXCEPT ![f.userId] =
              HDel(@, {TsField(f.categoryId, s) : s \in Range(f.setsToRemove)})]
  /\ Goto(p, "ev_rcnt", frame[p])
  /\ UNCHANGED <<elsewhere, now, CACHE_CONFIG, nextId, queue, queueMeta, userAllocations,
                 userMeta, snap, overlap, overlaps, beyondLedger>>

\* parseInt(await hGet(metaKey, `${categoryId}_evicted_count`) || '0')
EvRCnt(p) ==
  /\ pc[p] = "ev_rcnt"
  /\ LET f == frame[p]
         fld == MetaField(f.categoryId, "evicted_count")
         m == userMeta[f.userId]
     IN  Goto(p, "ev_wmeta",
              [f EXCEPT !.evictedCount = IF fld \in DOMAIN m THEN m[fld] ELSE 0])
  /\ UNCHANGED <<elsewhere, now, CACHE_CONFIG, nextId, store, snap, overlap, overlaps, beyondLedger>>

\* hSet(metaKey, {count, evicted_at, evicted_count}); the results are filled in
EvWMeta(p) ==
  /\ pc[p] = "ev_wmeta"
  /\ frame[p].evictedCount + Len(frame[p].setsToRemove) <= MaxEvicted
  /\ LET f == frame[p]
         c == f.categoryId
         remainingSets == RemainingSets(f.currentAllocations, f.setsToRemove)
         upd == [x \in {MetaField(c, "count"), MetaField(c, "evicted_at"),
                        MetaField(c, "evicted_count")} |->
                   IF x = MetaField(c, "count") THEN Len(remainingSets)
                   ELSE IF x = MetaField(c, "evicted_at") THEN now
                   ELSE f.evictedCount + Len(f.setsToRemove)]
     IN  /\ userMeta' = [userMeta EXCEPT ![f.userId] = HSet(@, upd)]
         /\ EvictionReturns(p, f, f.setsToRemove)
  /\ UNCHANGED <<elsewhere, now, CACHE_CONFIG, nextId, queue, queueMeta, userAllocations,
                 userTimestamps, snap, overlap, overlaps, beyondLedger>>

(***************************************************************************)
(* getNextAvailableSetForUser(userId, categoryId): eviction, then the scan *)
(* of the pool, then addUserCategoryAllocationWithTimestamp.               *)
(***************************************************************************)
BeginAllocate(p, serial, U, C) ==
  \E u \in U, c \in C :
    /\ UNCHANGED <<nextId, beyondLedger, elsewhere>>
    /\ Begin(p, serial, "ev_list",
             [IdleFrame EXCEPT !.op = "allocate", !.userId = u, !.categoryId = c],
             SnapOf(u))

\* userAllocations = await getUserCategoryAllocations(userId, categoryId)
AlList(p) ==
  /\ pc[p] = "al_list"
  /\ LET f == frame[p]
     IN  Goto(p, "al_pool",
              [f EXCEPT !.userAllocations =
                 GetUserCategoryAllocations(userAllocations[f.userId], f.categoryId)])
  /\ UNCHANGED <<elsewhere, now, CACHE_CONFIG, nextId, store, snap, overlap, overlaps, beyondLedger>>

\* (mutant) the allocated set is taken out of the pool
AlPoolDestructive(p) ==
  /\ pc[p] = "al_pool"
  /\ LET f == frame[p]
         nextSet == NextSet(LRangeAll(queue[f.categoryId]), f.userAllocations)
     IN  IF nextSet # 0
           THEN /\ Goto(p, "add_list", [f EXCEPT !.nextSet = nextSet, !.userAllocations = <<>>])
                /\ queue' = [queue EXCEPT ![f.categoryId] =
                                SelectSeq(@, LAMBDA s : s # nextSet)]
           ELSE /\ Goto(p, "done", Returned(f, "null", 0))
                /\ UNCHANGED queue
  /\ UNCHANGED <<elsewhere, now, CACHE_CONFIG, nextId, queueMeta, ledger, snap, overlap, overlaps, beyondLedger>>

\* availableSets = await lRange(queueKey, 0, -1); nextSet = availableSets.find(...)
AlPool(p) ==
  /\ pc[p] = "al_pool"
  /\ LET f == frame[p]
         nextSet == NextSet(LRangeAll(queue[f.categoryId]), f.userAllocations)
     IN  IF nextSet # 0
           THEN Goto(p, "add_list", [f EXCEPT !.nextSet = nextSet, !.userAllocations = <<>>])
           ELSE Goto(p, "done", Returned(f, "null", 0))
  /\ UNCHANGED <<elsewhere, now, CACHE_CONFIG, nextId, store, snap, overlap, overlaps, beyondLedger>>

\* (mutant) the new set is put at the head of the list
AddListUnshift(p) ==
  /\ pc[p] = "add_list"
  /\ LET f == frame[p]
         cur == GetUserCategoryAllocations(userAllocations[f.userId], f.categoryId)
     IN  IF ~AlreadyAllocated(cur, f.nextSet)
           THEN Goto(p, "add_wlist", [f EXCEPT !.currentAllocations = <<f.nextSet>> \o cur])
           ELSE Goto(p, "done", Returned(f, "set", f.nextSet))
  /\ UNCHANGED <<elsewhere, now, CACHE_CONFIG, nextId, store, snap, overlap, overlaps, beyondLedger>>

\* addUserCategoryAllocationWithTimestamp: currentAllocations = await
\* getUserCategoryAllocations(...); a set already in the list is not added again
AddList(p) ==
  /\ pc[p] = "add_list"
  /\ LET f == frame[p]
         cur == GetUserCategoryAllocations(userAllocations[f.userId], f.categoryId)
     IN  IF ~AlreadyAllocated(cur, f.nextSet)
           THEN Goto(p, "add_wlist", [f EXCEPT !.currentAllocations = Append(cur, f.nextSet)])
           ELSE Goto(p, "done", Returned(f, "set", f.nextSet))
  /\ UNCHANGED <<elsewhere, now, CACHE_CONFIG, nextId, store, snap, overlap, overlaps, beyondLedger>>

\* (mutant) the hash of the user is written anew with the one category
AddWListWholeHash(p) ==
  /\ pc[p] = "add_wlist"
  /\ LET f == frame[p]
     IN  userAllocations' =
           [userAllocations EXCEPT ![f.userId] = [x \in {f.categoryId} |-> f.currentAllocations]]
  /\ Goto(p, "add_wts", frame[p])
  /\ UNCHANGED <<elsewhere, now, CACHE_CONFIG, nextId, queue, queueMeta, userMeta,
                 userTimestamps, snap, overlap, overlaps, beyondLedger>>

\* hSet(userKey, categoryId, JSON.stringify(currentAllocations))
AddWList(p) ==
  /\ pc[p] = "add_wlist"
  /\ LET f == frame[p]
     IN  userAllocations' =
           [userAllocations EXCEPT ![f.userId] =
              HSet(@, [x \in {f.categoryId} |-> f.currentAllocations])]
  /\ Goto(p, "add_wts", frame[p])
  /\ UNCHANGED <<elsewhere, now, CACHE_CONFIG, nextId, queue, queueMeta, userMeta,
                 userTimestamps, snap, overlap, overlaps, beyondLedger>>

\* (mutant) the timestamp field is named by the set alone: it is written for
\* the set in every category
AddWTsBySetOnly(p) ==
  /\ pc[p] = "add_wts"
  /\ LET f == frame[p]
     IN  userTimestamps' =
           [userTimestamps EXCEPT ![f.userId] =
              HSet(@, [x \in {TsField(c, f.nextSet) : c \in Cats} |-> now])]
  /\ Goto(p, "add_wmeta", frame[p])
  /\ UNCHANGED <<elsewhere, now, CACHE_CONFIG, nextId, queue, queueMeta, userAllocations,
                 userMeta, snap, overlap, overlaps, beyondLedger>>

\* hSet(timestampKey, `${categoryId}:${setId}`, new Date().toISOString())
AddWTs(p) ==
  /\ pc[p] = "add_wts"
  /\ LET f == frame[p]
     IN  userTimestamps' =
           [userTimestamps EXCEPT ![f.userId] =
              HSet(@, [x \in {TsField(f.categoryId, f.nextSet)} |-> now])]
  /\ Goto(p, "add_wmeta", frame[p])
  /\ UNCHANGED <<elsewhere, now, CACHE_CONFIG, nextId, queue, queueMeta, userAllocations,
                 userMeta, snap, overlap, overlaps, beyondLedger>>

\* (mutant) the count written is the length of the list before the set was added
AddWMetaStaleCount(p) ==
  /\ pc[p] = "add_wmeta"
  /\ LET f == frame[p]
         c == f.categoryId
         upd == [x \in {LastUpdatedField, MetaField(c, "count"),
                        MetaField(c, "last_allocated"), MetaField(c, "last_updated")} |->
                   IF x = MetaField(c, "count") THEN Len(f.currentAllocations) - 1
                   ELSE IF x = MetaField(c, "last_allocated") THEN f.nextSet
                   ELSE now]
     IN  /\ userMeta' = [userMeta EXCEPT ![f.userId] = HSet(@, upd)]
         /\ Goto(p, "done", Returned(f, "set", f.nextSet))
  /\ UNCHANGED <<elsewhere, now, CACHE_CONFIG, nextId, queue, queueMeta, userAllocations,
                 userTimestamps, snap, overlap, overlaps, beyondLedger>>

\* hSet(metaKey, {last_updated, count, last_allocated, <category>_last_updated});
\* getNextAvailableSetForUser returns nextSet
AddWMeta(p) ==
  /\ pc[p] = "add_wmeta"
  /\ LET f == frame[p]
         c == f.categoryId
         upd == [x \in {LastUpdatedField, MetaField(c, "count"),
                        MetaField(c, "last_allocated"), MetaField(c, "last_updated")} |->
                   IF x = MetaField(c, "count") THEN Len(f.currentAllocations)
                   ELSE IF x = MetaField(c, "last_allocated") THEN f.nextSet
                   ELSE now]
     IN  /\ userMeta' = [userMeta EXCEPT ![f.userId] = HSet(@, upd)]
         /\ Goto(p, "done", Returned(f, "set", f.nextSet))
  /\ UNCHANGED <<elsewhere, now, CACHE_CONFIG, nextId, queue, queueMeta, userAllocations,
                 userTimestamps, snap, overlap, overlaps, beyondLedger>>

(***************************************************************************)
(* QuestionsMerger.getOrAllocateSetForUser(userId, categoryId): the last   *)
(* set of the user's list when there is one, getNextAvailableSetForUser    *)
(* otherwise.                                                              *)
(***************************************************************************)
BeginMerge(p, serial, U, C) ==
  \E u \in U, c \in C :
    /\ UNCHANGED <<nextId, beyondLedger, elsewhere>>
    /\ Begin(p, serial, "mg_list",
             [IdleFrame EXCEPT !.op = "merge", !.userId = u, !.categoryId = c],
             SnapOf(u))

\* (mutant) the merger allocates whatever the list holds
MgListAlwaysAllocates(p) ==
  /\ pc[p] = "mg_list"
  /\ Goto(p, "ev_list", frame[p])
  /\ UNCHANGED <<elsewhere, now, CACHE_CONFIG, nextId, store, snap, overlap, overlaps, beyondLedger>>

\* userAllocations = await getUserCategoryAllocations(userId, categoryId);
\* its last entry is returned, or getNextAvailableSetForUser is called
MgList(p) ==
  /\ pc[p] = "mg_list"
  /\ LET f == frame[p]
         userAllocs == GetUserCategoryAllocations(userAllocations[f.userId], f.categoryId)
     IN  IF Len(userAllocs) > 0
           THEN Goto(p, "done", Returned(f, "set", userAllocs[Len(userAllocs)]))
           ELSE Goto(p, "ev_list", f)
  /\ UNCHANGED <<elsewhere, now, CACHE_CONFIG, nextId, store, snap, overlap, overlaps, beyondLedger>>

(***************************************************************************)
(* clearUserAllocations(userId): del(userKey) and del(metaKey), issued     *)
(* together on one connection.  The timestamps hash is not deleted.        *)
(***************************************************************************)
BeginClear(p, serial, U) ==
  \E u \in U :
    /\ UNCHANGED <<nextId, beyondLedger, elsewhere>>
    /\ Begin(p, serial, "clr_alloc", [IdleFrame EXCEPT !.op = "clear", !.userId = u],
             SnapOf(u))

ClrAlloc(p) ==
  /\ pc[p] = "clr_alloc"
  /\ userAllocations' = [userAllocations EXCEPT ![frame[p].userId] = EmptyHash]
  /\ Goto(p, "clr_meta", frame[p])
  /\ UNCHANGED <<elsewhere, now, CACHE_CONFIG, nextId, queue, queueMeta, userMeta,
                 userTimestamps, snap, overlap, overlaps, beyondLedger>>

\* (mutant) the reset leaves the metadata hash in place
ClrMetaKeep(p) ==
  /\ pc[p] = "clr_meta"
  /\ Goto(p, "done", Returned(frame[p], "ok", 0))
  /\ UNCHANGED <<elsewhere, now, CACHE_CONFIG, nextId, store, snap, overlap, overlaps, beyondLedger>>

\* this.client.del(metaKey)
ClrMeta(p) ==
  /\ pc[p] = "clr_meta"
  /\ userMeta' = [userMeta EXCEPT ![frame[p].userId] = EmptyHash]
  /\ Goto(p, "done", Returned(frame[p], "ok", 0))
  /\ UNCHANGED <<elsewhere, now, CACHE_CONFIG, nextId, queue, queueMeta, userAllocations,
                 userTimestamps, snap, overlap, overlaps, beyondLedger>>

(***************************************************************************)
(* addSetsToQueue(categoryId, setIds), called by the set builder with the  *)
(* ids of the sets it has just created (fresh uuids, in creation order).   *)
(***************************************************************************)
BeginEnqueue(p, serial, C) ==
  \E c \in C, k \in 1..MaxBatch :
    /\ nextId + k - 1 <= MaxSetIds
    /\ nextId' = nextId + k
    /\ UNCHANGED <<beyondLedger, elsewhere>>
    /\ Begin(p, serial, "aq_push",
             [IdleFrame EXCEPT !.op = "enqueue", !.categoryId = c,
                               !.setIds = [i \in 1..k |-> nextId + i - 1]],
             NoSnap)

\* result = await lPush(queueKey, setIds)
AqPush(p) ==
  /\ pc[p] = "aq_push"
  /\ LET f == frame[p]
         list == LPush(queue[f.categoryId], f.setIds)
     IN  /\ queue' = [queue EXCEPT ![f.categoryId] = list]
         /\ Goto(p, "aq_len", [f EXCEPT !.retValue = Len(list)])
  /\ UNCHANGED <<elsewhere, now, CACHE_CONFIG, nextId, queueMeta, ledger, snap, overlap, overlaps, beyondLedger>>

\* total_available: await lLen(queueKey)
AqLen(p) ==
  /\ pc[p] = "aq_len"
  /\ Goto(p, "aq_meta", [frame[p] EXCEPT !.totalAvailable = Len(queue[frame[p].categoryId])])
  /\ UNCHANGED <<elsewhere, now, CACHE_CONFIG, nextId, store, snap, overlap, overlaps, beyondLedger>>

\* hSet(metaKey, {total_available, last_updated, last_batch_size}); returns result
AqMeta(p) ==
  /\ pc[p] = "aq_meta"
  /\ LET f == frame[p]
         upd == [x \in {"total_available", "last_updated", "last_batch_size"} |->
                   IF x = "total_available" THEN f.totalAvailable
                   ELSE IF x = "last_updated" THEN now
                   ELSE Len(f.setIds)]
     IN  /\ queueMeta' = [queueMeta EXCEPT ![f.categoryId] = HSet(@, upd)]
         /\ Goto(p, "done", Returned(f, "ok", f.retValue))
  /\ UNCHANGED <<elsewhere, now, CACHE_CONFIG, nextId, queue, ledger, snap, overlap, overlaps, beyondLedger>>

(***************************************************************************)
(* getNextSetFromQueue(categoryId): the destructive dequeue of the CLI and *)
(* of SetTracker.getNextAvailableSet.                                      *)
(***************************************************************************)
\* the pool when a call on the pool begins
PoolSnap == [NoSnap EXCEPT !.queue = queue, !.queueMeta = queueMeta]

BeginDequeue(p, serial, C) ==
  \E c \in C :
    /\ UNCHANGED <<nextId, beyondLedger, elsewhere>>
    /\ Begin(p, serial, "dq_pop", [IdleFrame EXCEPT !.op = "dequeue", !.categoryId = c],
             PoolSnap)

\* (mutant) the set is taken from the head of the list: lPop
DqPopHead(p) ==
  /\ pc[p] = "dq_pop"
  /\ LET f == frame[p]
         list == queue[f.categoryId]
     IN  IF Len(list) > 0
           THEN /\ queue' = [queue EXCEPT ![f.categoryId] = Tail(list)]
                /\ Goto(p, "dq_len", [f EXCEPT !.nextSet = Head(list)])
           ELSE /\ UNCHANGED queue
                /\ Goto(p, "done", Returned(f, "null", 0))
  /\ UNCHANGED <<elsewhere, now, CACHE_CONFIG, nextId, queueMeta, ledger, snap, overlap, overlaps, beyondLedger>>

\* setId = await rPop(queueKey): the tail of the list, null when it is empty
DqPop(p) ==
  /\ pc[p] = "dq_pop"
  /\ LET f == frame[p]
         list == queue[f.categoryId]
     IN  IF Len(list) > 0
           THEN /\ queue' = [queue EXCEPT ![f.categoryId] = SubSeq(list, 1, Len(list) - 1)]
                /\ Goto(p, "dq_len", [f EXCEPT !.nextSet = list[Len(list)]])
           ELSE /\ UNCHANGED queue
                /\ Goto(p, "done", Returned(f, "null", 0))
  /\ UNCHANGED <<elsewhere, now, CACHE_CONFIG, nextId, queueMeta, ledger, snap, overlap, overlaps, beyondLedger>>

\* remainingCount = await lLen(queueKey)
DqLen(p) ==
  /\ pc[p] = "dq_len"
  /\ Goto(p, "dq_meta", [frame[p] EXCEPT !.totalAvailable = Len(queue[frame[p].categoryId])])
  /\ UNCHANGED <<elsewhere, now, CACHE_CONFIG, nextId, store, snap, overlap, overlaps, beyondLedger>>

\* hSet(metaKey, 'total_available', remainingCount); returns setId
DqMeta(p) ==
  /\ pc[p] = "dq_meta"
  /\ LET f == frame[p]
     IN  /\ queueMeta' = [queueMeta EXCEPT ![f.categoryId] =
                            HSet(@, [x \in {"total_available"} |-> f.totalAvailable])]
         /\ Goto(p, "done", Returned(f, "set", f.nextSet))
  /\ UNCHANGED <<elsewhere, now, CACHE_CONFIG, nextId, queue, ledger, snap, overlap, overlaps, beyondLedger>>

(***************************************************************************)
(* clearQueue(categoryId): del(queueKey) and del(metaKey), issued together *)
(* on one connection.                                                      *)
(***************************************************************************)
BeginDrop(p, serial, C) ==
  \E c \in C :
    /\ UNCHANGED <<nextId, beyondLedger, elsewhere>>
    /\ Begin(p, serial, "dr_queue", [IdleFrame EXCEPT !.op = "drop", !.categoryId = c],
             PoolSnap)

\* this.client.del(queueKey)
DrQueue(p) ==
  /\ pc[p] = "dr_queue"
  /\ queue' = [queue EXCEPT ![frame[p].categoryId] = <<>>]
  /\ Goto(p, "dr_meta", frame[p])
  /\ UNCHANGED <<elsewhere, now, CACHE_CONFIG, nextId, queueMeta, ledger, snap, overlap, overlaps, beyondLedger>>

\* this.client.del(metaKey); returns true
DrMeta(p) ==
  /\ pc[p] = "dr_meta"
  /\ queueMeta' = [queueMeta EXCEPT ![frame[p].categoryId] = EmptyHash]
  /\ Goto(p, "done", Returned(frame[p], "ok", 0))
  /\ UNCHANGED <<elsewhere, now, CACHE_CONFIG, nextId, queue, ledger, snap, overlap, overlaps, beyondLedger>>

(***************************************************************************)
(* triggerCacheEvictionForUser(userId): one                                *)
(* applyCacheEvictionWithTimestamps per category of the user's hash, made  *)
(* by handler 1.                                                           *)
(***************************************************************************)
NoTrigger == evictionSummary.pc = "idle"

\* allocations = await getUserAllocations(userId); the summary is made; the
\* timestamps the call finds are kept for the claims
BeginTrigger(U) ==
  \E u \in U :
    /\ NoTrigger
    /\ \A q \in Procs : pc[q] = "idle"
    /\ evictionSummary' =
         [IdleSummary EXCEPT !.pc = "loop", !.userId = u,
                             !.allocations = userAllocations[u],
                             !.pending = DOMAIN userAllocations[u],
                             !.timestamps = userTimestamps[u]]
    /\ UNCHANGED <<now, CACHE_CONFIG, nextId, store, pc, frame, snap, overlap, overlaps, beyondLedger, ingest, keyspace, availability>>

\* for (const categoryId of Object.keys(allocations)): the call of
\* applyCacheEvictionWithTimestamps(userId, categoryId), or the end of the
\* loop; the order of the fields of a Redis hash is not fixed
TrCall ==
  /\ evictionSummary.pc = "loop"
  /\ IF evictionSummary.pending # {}
       THEN \E c \in evictionSummary.pending :
              /\ Begin(1, TRUE, "ev_list",
                       [IdleFrame EXCEPT !.op = "evict", !.userId = evictionSummary.userId,
                                         !.categoryId = c],
                       SnapOf(evictionSummary.userId))
              /\ evictionSummary' = [evictionSummary EXCEPT !.pc = "await", !.categoryId = c,
                                                            !.pending = @ \ {c}]
       ELSE /\ evictionSummary' = [evictionSummary EXCEPT !.pc = "done"]
            /\ UNCHANGED <<now, CACHE_CONFIG, store, pc, frame, snap, overlap, overlaps>>
  /\ UNCHANGED <<nextId, beyondLedger, ingest, keyspace, availability>>

\* (mutant) totalRemoved is the removedCount of the last category
TrTakeOverwrite ==
  /\ evictionSummary.pc = "await"
  /\ Taken(1)
  /\ evictionSummary' =
       IF frame[1].retKind = "error"
         THEN [evictionSummary EXCEPT !.pc = "thrown"]
         ELSE [evictionSummary EXCEPT
                 !.pc = "loop",
                 !.categoryResults =
                    HSet(@, [x \in {evictionSummary.categoryId} |->
                               [removedCount |-> frame[1].removedCount,
                                removedSets |-> frame[1].removedSets]]),
                 !.totalRemoved = frame[1].removedCount,
                 !.categoriesProcessed = @ + 1]
  /\ UNCHANGED <<beyondLedger, ingest, keyspace, availability>>

\* the eviction has returned its results, which go into the summary, or
\* has thrown, and the call rethrows
TrTake ==
  /\ evictionSummary.pc = "await"
  /\ Taken(1)
  /\ evictionSummary' =
       IF frame[1].retKind = "error"
         THEN [evictionSummary EXCEPT !.pc = "thrown"]
         ELSE [evictionSummary EXCEPT
                 !.pc = "loop",
                 !.categoryResults =
                    HSet(@, [x \in {evictionSummary.categoryId} |->
                               [removedCount |-> frame[1].removedCount,
                                removedSets |-> frame[1].removedSets]]),
                 !.totalRemoved = @ + frame[1].removedCount,
                 !.categoriesProcessed = @ + 1]
  /\ UNCHANGED <<beyondLedger, ingest, keyspace, availability>>

\* return evictionSummary, or the rejection: the caller has it
TrReturn ==
  /\ evictionSummary.pc \in {"done", "thrown"}
  /\ evictionSummary' = IdleSummary
  /\ UNCHANGED <<now, CACHE_CONFIG, nextId, store, pc, frame, snap, overlap, overlaps, beyondLedger, ingest, keyspace, availability>>

(***************************************************************************)
(* SetsAllocator.allocateSetsForUser(userId, categoryIds): one             *)
(* getNextAvailableSetForUser per listed category, made by handler 1.      *)
(***************************************************************************)
\* the lists of categories a request may name
CategoryLists == UNION {[1..n -> Cats] : n \in 0..MaxCategories}

\* SetsAllocator.initialize(), the connection made
Initialize ==
  /\ ~isInitialized
  /\ results.pc = "idle"
  /\ isInitialized' = TRUE
  /\ UNCHANGED <<elsewhere, now, CACHE_CONFIG, nextId, store, pc, frame, snap, overlap, overlaps, results, handed,
                 builder>>

\* the call begins: it throws when the allocator is not initialized,
\* otherwise it builds the results object
BeginBatch(U) ==
  \E u \in U, categoryIds \in CategoryLists :
    /\ results.pc = "idle"
    /\ \A q \in Procs : pc[q] = "idle"
    /\ results' =
         IF ~isInitialized
           THEN [IdleResults EXCEPT !.pc = "thrown", !.userId = u, !.categoryIds = categoryIds]
           ELSE [IdleResults EXCEPT !.pc = "loop", !.userId = u, !.categoryIds = categoryIds,
                                    !.i = 1, !.requested = Len(categoryIds)]
    /\ UNCHANGED <<elsewhere, now, CACHE_CONFIG, nextId, store, pc, frame, snap, overlap, overlaps,
                   isInitialized, handed, builder>>

\* for (const categoryId of categoryIds): the call of
\* queueManager.getNextAvailableSetForUser(userId, categoryId), or the end of the loop
BatchCall ==
  /\ results.pc = "loop"
  /\ IF results.i <= Len(results.categoryIds)
       THEN LET c == results.categoryIds[results.i]
            IN  /\ Begin(1, TRUE, "ev_list",
                         [IdleFrame EXCEPT !.op = "allocate", !.userId = results.userId,
                                           !.categoryId = c],
                         SnapOf(results.userId))
                /\ results' = [results EXCEPT !.pc = "await", !.calls = Append(@, c)]
       ELSE /\ results' = [results EXCEPT !.pc = "done"]
            /\ UNCHANGED <<now, CACHE_CONFIG, store, pc, frame, snap, overlap, overlaps>>
  /\ UNCHANGED <<nextId, isInitialized, handed, builder, elsewhere>>

\* what the loop body records for the outcome of the call
Recorded(r, c, kind, value) ==
  IF kind = "set"
    THEN [r EXCEPT !.successful = HSet(@, [x \in {c} |-> value]),
                   !.nSuccessful = @ + 1]
    ELSE [r EXCEPT !.failed = HSet(@, [x \in {c} |->
                                IF kind = "null" THEN "No available sets" ELSE "error.message"]),
                   !.nFailed = @ + 1]

\* (mutant) a category whose allocation throws ends the loop
BatchTakeAbort ==
  /\ results.pc = "await"
  /\ Taken(1)
  /\ LET c == results.categoryIds[results.i]
         r == Recorded(results, c, frame[1].retKind, frame[1].retValue)
     IN  results' = IF frame[1].retKind = "error"
                      THEN [r EXCEPT !.pc = "done"]
                      ELSE [r EXCEPT !.pc = "loop", !.i = @ + 1]
  /\ UNCHANGED <<isInitialized, handed, builder, elsewhere>>

\* the call has returned or thrown: try { setId = await ...; if (setId) ... else ... }
\* catch (error) { ... }
BatchTake ==
  /\ results.pc = "await"
  /\ Taken(1)
  /\ LET c == results.categoryIds[results.i]
         r == Recorded(results, c, frame[1].retKind, frame[1].retValue)
     IN  results' = [r EXCEPT !.pc = "loop", !.i = @ + 1]
  /\ UNCHANGED <<isInitialized, handed, builder, elsewhere>>

\* return results, or the rejection: the caller has it, the call is over
BatchReturn ==
  /\ results.pc \in {"done", "thrown"}
  /\ results' = IdleResults
  /\ UNCHANGED <<elsewhere, now, CACHE_CONFIG, nextId, store, pc, frame, snap, overlap, overlaps,
                 isInitialized, handed, builder>>

(***************************************************************************)
(* The set builder: generateQuestionSets(numSetsPerCategory,               *)
(* questionsPerSet) of generate-questions-sets.js.  Question ids are       *)
(* numbered in their sort order (localeCompare, the default sort and > of  *)
(* strings agree on uuids).                                                *)
(***************************************************************************)
\* loadCategories(): the categories of categories.json, in file order
Categories == <<"c1", "c2">>

handlers == <<pc, frame, snap, overlap, overlaps>>
allocator == <<isInitialized, results, handed>>

Min(a, b) == IF a <= b THEN a ELSE b

\* Array.prototype.slice(start, end) with 0 <= start <= end
Slice(s, start, end) == SubSeq(s, start + 1, Min(end, Len(s)))

\* questions.sort((a, b) => a.id.localeCompare(b.id))
RECURSIVE SortById(_)
SortById(S) ==
  IF S = {} THEN <<>>
  ELSE LET least == CHOOSE x \in S : \A y \in S : x <= y
       IN  <<least>> \o SortById(S \ {least})

\* getQuestionsByCategory(categoryId, lastReadQuestionId); 0 is null
GetQuestionsByCategory(table, c, lastReadQuestionId) ==
  SortById({q \in table[c] : lastReadQuestionId = 0 \/ q > lastReadQuestionId})

\* what getLastReadQuestionId(categoryId) may return: the offset of the one
\* item the query on category-index yields (the index has no sort key, so
\* any set of the category can come first), and null (0) when the category
\* has no set
LastReadOutcomes(sets, c) ==
  LET offsets == {sets[i].offset : i \in {j \in 1..Len(sets) : sets[j].category_id = c}}
  IN  IF offsets = {} THEN {0} ELSE offsets

\* Math.min(numSetsPerCategory, Math.floor(questions.length / questionsPerSet))
SetsToGenerate(m, numSetsPerCategory, questionsPerSet) ==
  Min(numSetsPerCategory, m \div questionsPerSet)

\* (mutant) set j starts at item j instead of item j * questionsPerSet
GenerateSetsSliding(questions, numSets, questionsPerSet) ==
  LET F[i \in 0..numSets] ==
        IF i = 0 THEN <<>>
        ELSE LET set == Slice(questions, i - 1, i - 1 + questionsPerSet)
             IN  IF Len(set) = questionsPerSet THEN Append(F[i - 1], set) ELSE F[i - 1]
  IN  F[numSets]

\* generateSetsForCategory(questions, numSets, questionsPerSet)
GenerateSetsForCategory(questions, numSets, questionsPerSet) ==
  LET F[i \in 0..numSets] ==
        IF i = 0 THEN <<>>
        ELSE LET startIndex == (i - 1) * questionsPerSet
                 set == Slice(questions, startIndex, startIndex + questionsPerSet)
             IN  IF Len(set) = questionsPerSet THEN Append(F[i - 1], set) ELSE F[i - 1]
  IN  F[numSets]

\* allQuestionsUsed.map(q => q.id).sort().pop(); 0 is undefined
LastQuestionUsed(allQuestionsUsed) ==
  IF allQuestionsUsed = <<>> THEN 0
  ELSE CHOOSE x \in Range(allQuestionsUsed) : \A y \in Range(allQuestionsUsed) : y <= x

\* the locals of the loop body are gone when a turn of the loop is over
LoopLocalsGone(f) ==
  [f EXCEPT !.lastReadQuestionId = 0, !.questions = <<>>, !.sets = <<>>,
            !.lastQuestionUsed = 0, !.setIndex = 0, !.storedSets = <<>>]

BuildInFlight(b) == bpc[b] \notin {"idle", "done"}

\* a question is stored in the questions table (storage.js); the generator
\* of questions runs between the builds
AddQuestion(C) ==
  \E c \in C :
    /\ \A b \in Builders : bpc[b] = "idle"
    /\ Cardinality(questionsTable[c]) < MaxItems
    /\ questionsTable' = [questionsTable EXCEPT ![c] = @ \cup {Cardinality(@) + 1}]
    /\ UNCHANGED <<elsewhere, now, CACHE_CONFIG, nextId, store, handlers, allocator, catalog, bpc, bframe>>

\* POST /api/sets/generate, or the CLI: the request is accepted with positive
\* numbers and generateQuestionSets starts; the tracker is null when Redis
\* could not be reached
BeginBuild(b, serial, trackers) ==
  \E n \in 1..MaxNumSets, k \in 1..MaxPerSet, tracker \in trackers :
    /\ bpc[b] = "idle"
    /\ pc[b] = "idle"
    /\ serial => \A q \in Builders : bpc[q] = "idle"
    /\ \A q \in Builders : q < b => bpc[q] # "idle"
    /\ LET concurrent == \E q \in Builders \ {b} : BuildInFlight(q)
       IN  bframe' = [q \in Builders |->
                        IF q = b
                          THEN [IdleBuild EXCEPT !.numSetsPerCategory = n,
                                                 !.questionsPerSet = k,
                                                 !.setTracker = tracker, !.ci = 1,
                                                 !.overlapped = concurrent]
                          ELSE IF BuildInFlight(q)
                                 THEN [bframe[q] EXCEPT !.overlapped = TRUE]
                                 ELSE bframe[q]]
    /\ bpc' = [bpc EXCEPT ![b] = "last_read"]
    /\ UNCHANGED <<elsewhere, now, CACHE_CONFIG, nextId, store, handlers, allocator,
                   questionsTable, catalog>>

\* lastReadQuestionId = await getLastReadQuestionId(category.id)
BdLastRead(b) ==
  /\ bpc[b] = "last_read"
  /\ \E v \in LastReadOutcomes(catalog, Categories[bframe[b].ci]) :
       bframe' = [bframe EXCEPT ![b].lastReadQuestionId = v]
  /\ bpc' = [bpc EXCEPT ![b] = "questions"]
  /\ UNCHANGED <<elsewhere, now, CACHE_CONFIG, nextId, store, handlers, allocator,
                 questionsTable, catalog>>

\* the query of getLastReadQuestionId rejects: catch (error) { return null },
\* and the build reads the category from its first question
BdLastReadFail(b) ==
  /\ bpc[b] = "last_read"
  /\ bframe' = [bframe EXCEPT ![b].lastReadQuestionId = 0]
  /\ bpc' = [bpc EXCEPT ![b] = "questions"]
  /\ UNCHANGED <<elsewhere, now, CACHE_CONFIG, nextId, store, handlers, allocator,
                 questionsTable, catalog>>

\* questions = await getQuestionsByCategory(...); too few questions: continue;
\* otherwise the sets are generated and storeSetsForCategory starts
BdQuestions(b) ==
  /\ bpc[b] = "questions"
  /\ LET f == bframe[b]
         questions == GetQuestionsByCategory(questionsTable, Categories[f.ci],
                                             f.lastReadQuestionId)
         setsToGenerate == SetsToGenerate(Len(questions), f.numSetsPerCategory,
                                          f.questionsPerSet)
         sets == GenerateSetsForCategory(questions, setsToGenerate, f.questionsPerSet)
         allQuestionsUsed == Slice(questions, 0, setsToGenerate * f.questionsPerSet)
     IN  IF Len(questions) < f.questionsPerSet
           THEN /\ bframe' = [bframe EXCEPT ![b].questions = questions, ![b].sets = <<>>,
                                            ![b].lastQuestionUsed = 0, ![b].setIndex = 0,
                                            ![b].storedSets = <<>>]
                /\ bpc' = [bpc EXCEPT ![b] = "next"]
           ELSE /\ bframe' = [bframe EXCEPT ![b].questions = questions, ![b].sets = sets,
                                            ![b].lastQuestionUsed =
                                               LastQuestionUsed(allQuestionsUsed),
                                            ![b].setIndex = 0, ![b].storedSets = <<>>]
                /\ bpc' = [bpc EXCEPT ![b] = "store"]
  /\ UNCHANGED <<elsewhere, now, CACHE_CONFIG, nextId, store, handlers, allocator,
                 questionsTable, catalog>>

\* storeSetsForCategory: await dynamoDb.put(setItem) of the next set; after
\* the last one, processNewSets -> addSetsToQueue goes to its lPush when
\* there is a tracker, and the category is finished when there is none
BdStore(b) ==
  /\ bpc[b] = "store"
  /\ nextId <= MaxSetIds
  /\ LET f == bframe[b]
         c == Categories[f.ci]
         setItem == [id |-> nextId, category_id |-> c,
                     question_ids |-> f.sets[f.setIndex + 1],
                     offset |-> f.lastQuestionUsed]
         storedSets == Append(f.storedSets, nextId)
         last == f.setIndex + 1 = Len(f.sets)
     IN  /\ catalog' = Append(catalog, setItem)
         /\ nextId' = nextId + 1
         /\ bframe' = [bframe EXCEPT ![b].setIndex = @ + 1, ![b].storedSets = storedSets]
         /\ IF last /\ f.setTracker
              THEN /\ bpc' = [bpc EXCEPT ![b] = "await"]
                   /\ Goto(b, "aq_push",
                           [IdleFrame EXCEPT !.op = "enqueue", !.categoryId = c,
                                             !.setIds = storedSets])
              ELSE /\ bpc' = [bpc EXCEPT ![b] = IF last THEN "next" ELSE "store"]
                   /\ UNCHANGED <<pc, frame>>
  /\ UNCHANGED <<elsewhere, now, CACHE_CONFIG, store, snap, overlap, overlaps, allocator,
                 questionsTable>>

\* addSetsToQueue has returned or thrown: try { await processNewSets } catch
\* { log }; return storedSets
BdTaken(b) ==
  /\ bpc[b] = "await"
  /\ Taken(b)
  /\ bpc' = [bpc EXCEPT ![b] = "next"]
  /\ UNCHANGED <<allocator, questionsTable, catalog, bframe, elsewhere>>

\* the next turn of for (const category of categories), or the end of the loop
BdNext(b) ==
  /\ bpc[b] = "next"
  /\ IF bframe[b].ci < Len(Categories)
       THEN /\ bpc' = [bpc EXCEPT ![b] = "last_read"]
            /\ bframe' = [bframe EXCEPT ![b] = [LoopLocalsGone(@) EXCEPT !.ci = @ + 1]]
       ELSE /\ bpc' = [bpc EXCEPT ![b] = "done"]
            /\ bframe' = [bframe EXCEPT ![b] =
                            [LoopLocalsGone(@) EXCEPT !.ci = @ + 1, !.outcome = "ok"]]
  /\ UNCHANGED <<elsewhere, now, CACHE_CONFIG, nextId, store, handlers, allocator,
                 questionsTable, catalog>>

\* the scan of the questions or a put of a set rejects: the error leaves the
\* loop, catch (error) { throw error }
BdFail(b) ==
  /\ bpc[b] \in {"questions", "store"}
  /\ bpc' = [bpc EXCEPT ![b] = "done"]
  /\ bframe' = [bframe EXCEPT ![b] =
                  [LoopLocalsGone(@) EXCEPT !.outcome =
                     IF bpc[b] = "questions" THEN "scan error" ELSE "put error"]]
  /\ UNCHANGED <<elsewhere, now, CACHE_CONFIG, nextId, store, handlers, allocator,
                 questionsTable, catalog>>

\* the promise of generateQuestionSets is settled: .then / .catch of the route
BuildReturn(b) ==
  /\ bpc[b] = "done"
  /\ bpc' = [bpc EXCEPT ![b] = "idle"]
  /\ bframe' = [bframe EXCEPT ![b] = IdleBuild]
  /\ UNCHANGED <<elsewhere, now, CACHE_CONFIG, nextId, store, handlers, allocator,
                 questionsTable, catalog>>

BuildStep(b) ==
  \/ BdLastRead(b)
  \/ BdQuestions(b)
  \/ BdStore(b)
  \/ BdTaken(b)
  \/ BdNext(b)

(***************************************************************************)
(* storeQuestions(questions) of question-generation/storage.js.  A         *)
(* question is its hash: its id is a new uuid, so that no two prepared      *)
(* questions have the same key.                                             *)
(***************************************************************************)
\* the arrays of questions a call may be given (an empty array throws)
QuestionLists == UNION {[1..n -> Hashes] : n \in 1..MaxQuestions}

\* the call begins: ensureTableExists, then every question is prepared
BeginStore ==
  \E questions \in QuestionLists :
    /\ sq.pc = "idle"
    /\ sq' = [IdleStore EXCEPT !.pc = "check", !.preparedQuestions = questions, !.i = 1,
                               !.before = <<hashIndex>>]
    /\ UNCHANGED <<now, CACHE_CONFIG, nextId, store, handlers, allocator, builder, hashIndex,
                 evictionSummary, keyspace, availability>>

\* existingQuestions = await checkQuestionExists(preparedQuestions[i].hash):
\* skipped when the table has an item with the hash, kept otherwise; after
\* the last one the loop is over
SqCheck ==
  /\ sq.pc = "check"
  /\ LET h == sq.preparedQuestions[sq.i]
         existing == hashIndex[h]
         r == IF existing > 0
                THEN [sq EXCEPT !.skippedCount = @ + 1]
                ELSE [sq EXCEPT !.uniqueQuestions = Append(@, h)]
     IN  sq' = IF sq.i < Len(sq.preparedQuestions)
                 THEN [r EXCEPT !.i = @ + 1]
                 ELSE [r EXCEPT !.i = 0, !.pc = "write"]
  /\ UNCHANGED <<now, CACHE_CONFIG, nextId, store, handlers, allocator, builder, hashIndex,
                 evictionSummary, keyspace, availability>>

\* the number of items of s that have hash h
CountOf(s, h) == Cardinality({i \in 1..Len(s) : s[i] = h})

\* batchPutItems(uniqueQuestions): one batchWrite (the array is shorter than
\* 25), processedItems = batch.length; then the results are made up
SqWrite ==
  /\ sq.pc = "write"
  /\ LET total == Len(sq.preparedQuestions)
         processedItems == Len(sq.uniqueQuestions)
     IN  /\ hashIndex' = [h \in Hashes |-> hashIndex[h] + CountOf(sq.uniqueQuestions, h)]
         /\ sq' = [sq EXCEPT !.pc = "done",
                             !.results = [total |-> total, stored |-> processedItems,
                                          skipped |-> sq.skippedCount,
                                          failed |-> total - processedItems - sq.skippedCount]]
  /\ UNCHANGED <<now, CACHE_CONFIG, nextId, store, handlers, allocator, builder, evictionSummary, keyspace, availability>>

\* return results: the caller has them, the call is over
SqReturn ==
  /\ sq.pc = "done"
  /\ sq' = IdleStore
  /\ UNCHANGED <<now, CACHE_CONFIG, nextId, store, handlers, allocator, builder, hashIndex,
                 evictionSummary, keyspace, availability>>

(***************************************************************************)
(* The clock and the configuration.                                        *)
(***************************************************************************)
\* a call lasts far less than one unit of the clock: the clock advances
\* between calls, after the caller has taken the result
Tick ==
  /\ \A p \in Procs : pc[p] = "idle"
  /\ now < MaxTime
  /\ now' = now + 1
  /\ UNCHANGED <<elsewhere, CACHE_CONFIG, nextId, store, pc, frame, snap, overlap, overlaps, beyondLedger>>

\* QueueManager.updateCacheConfig(config); an undefined member (0 here) keeps
\* the old value.  The CLI admits positive integers only.
UpdateCacheConfig(serial, caps, ages) ==
  /\ serial => \A q \in Procs : pc[q] = "idle"
  /\ \E maxSets \in caps, maxAge \in ages :
       CACHE_CONFIG' =
         [MAX_SETS_PER_CATEGORY |->
            IF maxSets # 0 THEN maxSets ELSE CACHE_CONFIG.MAX_SETS_PER_CATEGORY,
          MAX_AGE_MONTHS |->
            IF maxAge # 0 THEN maxAge ELSE CACHE_CONFIG.MAX_AGE_MONTHS]
  /\ UNCHANGED <<elsewhere, now, nextId, store, pc, frame, snap, overlap, overlaps, beyondLedger>>

(***************************************************************************)
(* The specifications.                                                     *)
(*                                                                         *)
(* SpecSeq runs one call at a time, from the state after construction.     *)
(* Spec lets the calls of two request handlers on the ledger interleave    *)
(* between round trips; it starts when the builder has enqueued one batch  *)
(* of sets, and the clock stands still.                                    *)
(* SpecFail runs one allocation at a time, with round trips that may       *)
(* throw, from the same state.                                             *)
(***************************************************************************)
SeqUsers == {"u1"}
SeqCats == {"c1"}
ConcUsers == {"u1"}
ConcCats == {"c1"}

LedgerStep(p) ==
  \/ EvList(p)
  \/ EvTs(p)
  \/ EvWList(p)
  \/ EvWTs(p)
  \/ EvRCnt(p)
  \/ EvWMeta(p)
  \/ AlList(p)
  \/ AlPool(p)
  \/ AddList(p)
  \/ AddWList(p)
  \/ AddWTs(p)
  \/ AddWMeta(p)

ClearStep(p) ==
  \/ ClrAlloc(p)
  \/ ClrMeta(p)

PoolStep(p) ==
  \/ AqPush(p)
  \/ AqLen(p)
  \/ AqMeta(p)

DequeueStep(p) ==
  \/ DqPop(p)
  \/ DqLen(p)
  \/ DqMeta(p)

DropStep(p) ==
  \/ DrQueue(p)
  \/ DrMeta(p)

NextSeq ==
  \/ BeginAllocate(1, TRUE, SeqUsers, SeqCats)
  \/ BeginEvict(1, TRUE, SeqUsers, SeqCats)
  \/ BeginClear(1, TRUE, SeqUsers)
  \/ BeginEnqueue(1, TRUE, SeqCats)
  \/ LedgerStep(1)
  \/ ClearStep(1)
  \/ PoolStep(1)
  \/ Return(1)
  \/ Tick
  \/ UpdateCacheConfig(TRUE, CapChoices \cup {0}, AgeChoices \cup {0})

SpecSeq == Init /\ [][NextSeq]_vars


\* the state after addSetsToQueue("c1", <<1, 2>>) has returned
InitLoaded ==
  /\ now = 0
  /\ CACHE_CONFIG = [MAX_SETS_PER_CATEGORY |-> DEFAULT_MAX_SETS_PER_CATEGORY,
                     MAX_AGE_MONTHS |-> DEFAULT_MAX_AGE_MONTHS]
  /\ nextId = 3
  /\ queue = [c \in Cats |-> IF c = "c1" THEN LPush(<<>>, <<1, 2>>) ELSE <<>>]
  /\ queueMeta = [c \in Cats |->
                    IF c = "c1"
                      THEN [x \in {"total_available", "last_updated", "last_batch_size"} |->
                              IF x = "last_updated" THEN 0 ELSE 2]
                      ELSE EmptyHash]
  /\ userAllocations = [u \in Users |-> EmptyHash]
  /\ userMeta = [u \in Users |-> EmptyHash]
  /\ userTimestamps = [u \in Users |-> EmptyHash]
  /\ pc = [p \in Procs |-> "idle"]
  /\ frame = [p \in Procs |-> IdleFrame]
  /\ snap = [p \in Procs |-> NoSnap]
  /\ overlap = [p \in Procs |-> {}]
  /\ overlaps = 0
  /\ InitAllocator
  /\ handed = [u \in Users |-> [c \in Cats |-> <<>>]]
  /\ InitBuilder
  /\ InitIngest
  /\ evictionSummary = IdleSummary
  /\ keyspace = {}
  /\ availability = IdleCheck

Next ==
  \/ \E p \in Procs :
       \/ BeginAllocate(p, FALSE, ConcUsers, ConcCats)
       \/ BeginEvict(p, FALSE, ConcUsers, ConcCats)
       \/ BeginClear(p, FALSE, ConcUsers)
       \/ LedgerStep(p)
       \/ ClearStep(p)
       \/ Return(p)
  \/ UpdateCacheConfig(FALSE, CapChoices, {0})

Spec == InitLoaded /\ [][Next]_vars

NextFail ==
  \/ BeginAllocate(1, TRUE, SeqUsers, SeqCats)
  \/ LedgerStep(1)
  \/ Fail(1)
  \/ Return(1)
  \/ UpdateCacheConfig(TRUE, CapChoices, {0})

SpecFail == InitLoaded /\ [][NextFail]_vars

\* one call at a time from the state after construction, without resets:
\* the sequences of allocations and evictions
NextLedger ==
  \/ BeginAllocate(1, TRUE, SeqUsers, SeqCats)
  \/ BeginEvict(1, TRUE, SeqUsers, SeqCats)
  \/ BeginEnqueue(1, TRUE, SeqCats)
  \/ LedgerStep(1)
  \/ PoolStep(1)
  \/ Return(1)
  \/ Tick
  \/ UpdateCacheConfig(TRUE, CapChoices \cup {0}, AgeChoices \cup {0})

SpecLedger == Init /\ [][NextLedger]_vars

\* batch allocations one at a time, whose round trips may throw, from the
\* state where category c1 has a pool and category c2 has none
NextBatch ==
  \/ Initialize
  \/ BeginBatch(SeqUsers)
  \/ BatchCall
  \/ LedgerStep(1)
  \/ Fail(1)
  \/ BatchTake
  \/ BatchReturn
  \/ UpdateCacheConfig(TRUE, CapChoices, {0})

SpecBatch == InitLoaded /\ [][NextBatch]_vars

\* one user's repeated allocations from a pool that is built first and then
\* left alone
NextCatchUp ==
  \/ BeginEnqueue(1, TRUE, SeqCats) /\ (\A u \in Users, c \in Cats : handed[u][c] = <<>>)
  \/ PoolStep(1)
  \/ BeginAllocate(1, TRUE, SeqUsers, SeqCats)
       /\ (\A u \in Users, c \in Cats : Len(handed[u][c]) < MaxHanded)
  \/ LedgerStep(1)
  \/ ReturnHanded(1)
  \/ UpdateCacheConfig(TRUE, CapChoices, {0})

SpecCatchUp == Init /\ [][NextCatchUp]_vars

\* the categories that have questions
BuildCats == {"c1"}

\* build requests one at a time with Redis in reach, questions coming in
\* between them
NextBuild ==
  \/ AddQuestion(BuildCats)
  \/ BeginBuild(1, TRUE, {TRUE})
  \/ BuildStep(1)
  \/ PoolStep(1)
  \/ BuildReturn(1)

SpecBuild == Init /\ [][NextBuild]_vars

\* build requests one at a time, whose scans, puts and enqueues may fail
NextBuildFail ==
  \/ AddQuestion(BuildCats)
  \/ BeginBuild(1, TRUE, BOOLEAN)
  \/ BuildStep(1)
  \/ BdLastReadFail(1)
  \/ BdFail(1)
  \/ PoolStep(1)
  \/ Fail(1)
  \/ BuildReturn(1)

SpecBuildFail == Init /\ [][NextBuildFail]_vars

\* two build requests at most, which may run at the same time
NextBuildConc ==
  \/ AddQuestion(BuildCats)
  \/ \E b \in Builders :
       \/ BeginBuild(b, FALSE, {TRUE})
       \/ BuildStep(b)
       \/ PoolStep(b)

SpecBuildConc == Init /\ [][NextBuildConc]_vars

\* build requests one at a time, with or without Redis in reach, whose
\* enqueues may fail
NextBuildRetry ==
  \/ AddQuestion(BuildCats)
  \/ BeginBuild(1, TRUE, BOOLEAN)
  \/ BuildStep(1)
  \/ PoolStep(1)
  \/ Fail(1)
  \/ BuildReturn(1)

\* a build that has started runs to its end, and as long as a build with
\* Redis in reach can be requested one is; a round trip need not fail
BuildProgress ==
  \/ BeginBuild(1, TRUE, {TRUE})
  \/ BuildStep(1)
  \/ PoolStep(1)
  \/ BuildReturn(1)

SpecBuildRetry ==
  Init /\ [][NextBuildRetry]_vars /\ WF_vars(BuildProgress) /\ WF_vars(AddQuestion(BuildCats))

\* enqueues and dequeues on one category by two request handlers, whose
\* round trips interleave
PoolCats == {"c1"}

NextPool ==
  \/ \E p \in Procs :
       \/ BeginEnqueue(p, FALSE, PoolCats)
       \/ BeginDequeue(p, FALSE, PoolCats)
       \/ PoolStep(p)
       \/ DequeueStep(p)
       \/ Return(p)

SpecPool == Init /\ [][NextPool]_vars

\* one at a time: builds (category c1 has questions), enqueues of new sets
\* on the other category, dequeues and drops on both
OtherCats == Cats \ BuildCats

NoBuild == \A b \in Builders : bpc[b] = "idle"

NextPoolSeq ==
  \/ AddQuestion(BuildCats)
  \/ BeginBuild(1, TRUE, {TRUE})
  \/ BuildStep(1)
  \/ BuildReturn(1)
  \/ BeginEnqueue(1, TRUE, OtherCats) /\ NoBuild
  \/ BeginDequeue(1, TRUE, Cats) /\ NoBuild
  \/ BeginDrop(1, TRUE, Cats) /\ NoBuild
  \/ PoolStep(1)
  \/ DequeueStep(1)
  \/ DropStep(1)
  \/ Return(1) /\ NoBuild

SpecPoolSeq == Init /\ [][NextPoolSeq]_vars

\* allocations of one user by two request handlers, which interleave when
\* they are on different categories; category c1 has its pool, the pool of
\* c2 is filled first, the cap moves between the calls and the clock stands
\* still
ParUsers == {"u1"}

NoRecordYet == \A u \in Users : userMeta[u] = EmptyHash

OnAnotherCategory(p) ==
  \A q \in Procs \ {p} : pc[q] # "idle" => frame'[p].categoryId # frame[q].categoryId

NextPar ==
  \/ BeginEnqueue(1, TRUE, OtherCats) /\ NoRecordYet
  \/ PoolStep(1)
  \/ \E p \in Procs :
       \/ BeginAllocate(p, FALSE, ParUsers, Cats) /\ OnAnotherCategory(p)
       \/ LedgerStep(p)
       \/ Return(p)
  \/ UpdateCacheConfig(TRUE, CapChoices, {0})

SpecPar == InitLoaded /\ [][NextPar]_vars

(***************************************************************************)
(* SetsAllocator.checkAvailability(userId, [categoryId]), and the          *)
(* allocation a caller issues right after it.                              *)
(***************************************************************************)
NoCheck == availability.pc = "idle"

\* the call begins: it throws when the allocator is not initialized
BeginCheck(U, C) ==
  \E u \in U, c \in C :
    /\ NoCheck
    /\ \A q \in Procs : pc[q] = "idle"
    /\ availability' =
         [IdleCheck EXCEPT !.pc = IF isInitialized THEN "list" ELSE "thrown",
                           !.userId = u, !.categoryId = c, !.before = <<store>>]
    /\ UNCHANGED <<now, CACHE_CONFIG, nextId, store, handlers, allocator, builder, ingest,
                   evictionSummary, keyspace>>

\* userAllocations = await getUserCategoryAllocations(userId, categoryId)
CkList ==
  /\ availability.pc = "list"
  /\ availability' =
       [availability EXCEPT !.pc = "range",
          !.userAllocations =
             GetUserCategoryAllocations(userAllocations[availability.userId],
                                        availability.categoryId)]
  /\ UNCHANGED <<now, CACHE_CONFIG, nextId, store, handlers, allocator, builder, ingest,
                 evictionSummary, keyspace>>

\* availableSets.filter(setId => !userAllocations.includes(setId)).length
NewSetsAvailable(availableSets, userAllocs) == Len(FilterNotIn(availableSets, userAllocs))

\* availableSets = await lRange(queueKey, 0, -1); the entry of the category
\* is filled in and availability is returned
CkRange ==
  /\ availability.pc = "range"
  /\ LET availableSets == LRangeAll(queue[availability.categoryId])
         n == NewSetsAvailable(availableSets, availability.userAllocations)
     IN  availability' =
           [availability EXCEPT !.pc = "done",
              !.totalAvailable = Len(availableSets),
              !.userAllocated = Len(availability.userAllocations),
              !.newAvailable = n,
              !.hasNewSets = n > 0,
              !.userAllocations = <<>>]
  /\ UNCHANGED <<now, CACHE_CONFIG, nextId, store, handlers, allocator, builder, ingest,
                 evictionSummary, keyspace>>

\* the caller has the result (or the rejection) and issues
\* getNextAvailableSetForUser for the same user and category at once
CkAllocate ==
  /\ availability.pc \in {"done", "thrown"}
  /\ IF availability.pc = "done"
       THEN /\ Begin(1, TRUE, "ev_list",
                     [IdleFrame EXCEPT !.op = "allocate", !.userId = availability.userId,
                                       !.categoryId = availability.categoryId],
                     SnapOf(availability.userId))
            /\ availability' = [availability EXCEPT !.pc = "await"]
       ELSE /\ availability' = IdleCheck
            /\ UNCHANGED <<now, CACHE_CONFIG, store, pc, frame, snap, overlap, overlaps>>
  /\ UNCHANGED <<nextId, beyondLedger, ingest, evictionSummary, keyspace>>

\* the allocation has returned or thrown: the caller goes on
CkTake ==
  /\ availability.pc = "await"
  /\ Taken(1)
  /\ availability' = IdleCheck
  /\ UNCHANGED <<beyondLedger, ingest, evictionSummary, keyspace>>

\* one caller for u1/c1 from the filled pool: allocations, and availability
\* checks each followed at once by an allocation; the clock, the cap and the
\* age limit move between them
NextAvail ==
  \/ Initialize /\ NoCheck
  \/ BeginAllocate(1, TRUE, SeqUsers, SeqCats) /\ NoCheck
  \/ LedgerStep(1)
  \/ Return(1) /\ NoCheck
  \/ BeginCheck(SeqUsers, SeqCats)
  \/ CkList
  \/ CkRange
  \/ CkAllocate
  \/ CkTake
  \/ Tick /\ NoCheck
  \/ UpdateCacheConfig(TRUE, CapChoices, AgeChoices) /\ NoCheck

SpecAvail == InitLoaded /\ [][NextAvail]_vars

(***************************************************************************)
(* The Redis keys of the ledger.  A string is the sequence of its pieces:  *)
(* the separator ":", the words "meta" and "timestamps", and a letter.  No *)
(* piece begins another, so two sequences differ exactly when the strings  *)
(* they spell differ.                                                      *)
(***************************************************************************)
MaxIdLen == 3
MaxKeyUsers == 2
Pieces == {"x", ":", "meta", "timestamps"}

\* the user ids: opaque, not empty
UserIds == UNION {[1..n -> Pieces] : n \in 1..MaxIdLen}

\* `user_allocations:${userId}`
getUserAllocationsKey(userId) == <<"user_allocations", ":">> \o userId

\* `user_allocations:meta:${userId}`
getUserMetaKey(userId) == <<"user_allocations", ":", "meta", ":">> \o userId

\* `${this.getUserAllocationsKey(userId)}:timestamps`
timestampKey(userId) == getUserAllocationsKey(userId) \o <<":", "timestamps">>

\* the three keys a call for the user reads and writes
LedgerKeys(userId) ==
  {getUserAllocationsKey(userId), getUserMetaKey(userId), timestampKey(userId)}

\* the user ids that calls have been made for
KeyUsers == {e[2] : e \in keyspace}

\* a call for a user (an allocation, which touches the three hashes)
UseLedger ==
  \E userId \in UserIds \ KeyUsers :
    /\ Cardinality(KeyUsers) < MaxKeyUsers
    /\ keyspace' = keyspace \cup {<<k, userId>> : k \in LedgerKeys(userId)}
    /\ UNCHANGED <<now, CACHE_CONFIG, nextId, store, handlers, allocator, builder, ingest,
                   evictionSummary, availability>>

NextKeys == UseLedger

SpecKeys == Init /\ [][NextKeys]_vars

\* two handlers on u1/c1, one overlap of calls (allocations and standalone
\* evictions), interleaved between round trips; the pool is filled and the
\* cap lowered while no call is running
NextRace ==
  \/ BeginEnqueue(1, TRUE, SeqCats)
  \/ PoolStep(1)
  \/ \E p \in Procs :
       \/ BeginAllocate(p, FALSE, SeqUsers, SeqCats)
       \/ BeginEvict(p, FALSE, SeqUsers, SeqCats)
       \/ LedgerStep(p)
       \/ Return(p)
  \/ UpdateCacheConfig(TRUE, CapChoices, {0})

SpecRace == Init /\ [][NextRace]_vars

\* one call at a time for u1/c1 from the filled pool: merges, direct
\* allocations that lengthen the list, resets that empty it
NextMerge ==
  \/ BeginMerge(1, TRUE, SeqUsers, SeqCats)
  \/ MgList(1)
  \/ BeginAllocate(1, TRUE, SeqUsers, SeqCats)
  \/ BeginClear(1, TRUE, SeqUsers)
  \/ LedgerStep(1)
  \/ ClearStep(1)
  \/ Return(1)
  \/ Tick
  \/ UpdateCacheConfig(TRUE, CapChoices, AgeChoices)

SpecMerge == InitLoaded /\ [][NextMerge]_vars

\* one call at a time, of any user on any category: allocations and
\* standalone evictions, the pool of the second category filled first
NextFrame ==
  \/ BeginEnqueue(1, TRUE, OtherCats) /\ NoRecordYet
  \/ PoolStep(1)
  \/ BeginAllocate(1, TRUE, Users, Cats)
  \/ BeginEvict(1, TRUE, Users, Cats)
  \/ LedgerStep(1)
  \/ Return(1)
  \/ UpdateCacheConfig(TRUE, CapChoices, {0})

SpecFrame == InitLoaded /\ [][NextFrame]_vars

\* one call at a time: the pools are filled first, the lists of the user
\* grow on both categories under the default configuration, and the
\* evictions of all the categories of the user come as the clock moves and
\* the configuration is tightened
DefaultConfig ==
  CACHE_CONFIG = [MAX_SETS_PER_CATEGORY |-> DEFAULT_MAX_SETS_PER_CATEGORY,
                  MAX_AGE_MONTHS |-> DEFAULT_MAX_AGE_MONTHS]

NextTrigger ==
  \/ BeginEnqueue(1, TRUE, Cats) /\ NoRecordYet /\ now = 0
  \/ PoolStep(1)
  \/ BeginAllocate(1, TRUE, SeqUsers, Cats) /\ NoTrigger /\ DefaultConfig
  \/ LedgerStep(1)
  \/ Return(1) /\ NoTrigger
  \/ BeginTrigger(SeqUsers)
  \/ TrCall
  \/ TrTake
  \/ TrReturn
  \/ Tick /\ NoTrigger
  \/ UpdateCacheConfig(TRUE, CapChoices, AgeChoices) /\ NoTrigger

SpecTrigger == Init /\ [][NextTrigger]_vars

\* calls of storeQuestions one after the other
NextIngest ==
  \/ BeginStore
  \/ SqCheck
  \/ SqWrite
  \/ SqReturn

SpecIngest == Init /\ [][NextIngest]_vars

(***************************************************************************)
(* What the claims speak of.                                               *)
(***************************************************************************)
\* the list of (u, c) in the ledger
List(u, c) == GetUserCategoryAllocations(userAllocations[u], c)

\* the list of (u, c) when the call of p began
ListBefore(p) == GetUserCategoryAllocations(snap[p].allocations, frame[p].categoryId)

\* the call of p has completed (returned, not thrown) and its caller has not yet gone on
Completed(p, ops) ==
  /\ pc[p] = "done"
  /\ frame[p].op \in ops
  /\ frame[p].retKind # "error"

\* the list of (u, c) as the eviction of the completed call of p left it:
\* without the set the call allocated afterwards
ListAfterEviction(p) ==
  LET l == List(frame[p].userId, frame[p].categoryId)
  IN  IF frame[p].op = "allocate" /\ frame[p].retKind = "set" /\ Len(l) > 0
        THEN SubSeq(l, 1, Len(l) - 1)
        ELSE l

NoDuplicates(l) == \A i, j \in 1..Len(l) : l[i] = l[j] => i = j

\* the age horizon of a call that has just completed (the clock and the
\* configuration do not change during a serial call)
Horizon == now - CACHE_CONFIG.MAX_AGE_MONTHS

\* the set was assigned before the horizon, by the timestamps the call found
AgedBefore(p, s) ==
  /\ TsField(frame[p].categoryId, s) \in DOMAIN snap[p].timestamps
  /\ snap[p].timestamps[TsField(frame[p].categoryId, s)] < Horizon

(***************************************************************************)
(* The claims.                                                             *)
(***************************************************************************)

\* C1 (as claimed): FIFO-from-pool.  A successful allocation returns the
\* earliest-enqueued set id of the category's pool that is not in the user's
\* post-eviction list.  Set ids are handed out in enqueue order, so the
\* earliest-enqueued set is the one with the least id.
C1_FifoFromPool ==
  \A p \in Procs :
    (Completed(p, {"allocate"}) /\ frame[p].retKind = "set") =>
      \A s \in Range(queue[frame[p].categoryId]) \ Range(ListAfterEviction(p)) :
        frame[p].retValue <= s

\* C2 (as claimed): two concurrent allocations for the same user and category
\* never both return the same set id.
C2_ConcurrentDistinct ==
  \A p, q \in Procs :
    ( /\ p # q
      /\ q \in overlap[p]
      /\ Completed(p, {"allocate"}) /\ Completed(q, {"allocate"})
      /\ frame[p].userId = frame[q].userId
      /\ frame[p].categoryId = frame[q].categoryId
      /\ frame[p].retKind = "set" /\ frame[q].retKind = "set" )
    => frame[p].retValue # frame[q].retValue

\* C3 (as claimed): count-cap.  After a completed allocation the list of
\* (u, c) holds at most MAX_SETS_PER_CATEGORY set ids.
C3_CountCap ==
  \A p \in Procs :
    Completed(p, {"allocate"}) =>
      Len(List(frame[p].userId, frame[p].categoryId))
        <= CACHE_CONFIG.MAX_SETS_PER_CATEGORY

\* C4: no-duplicate-allocation.  In every state reached by interleaved
\* allocations, evictions and resets, no list of the ledger holds a set id twice.
C4_NoDuplicateAllocation ==
  \A u \in Users, c \in Cats : NoDuplicates(List(u, c))

\* C4 witness: two overlapping allocations of the same (u, c) picked the same
\* set, both have completed, and the list holds that set.
C4_Witness ==
  \E p, q \in Procs :
    /\ p # q /\ q \in overlap[p]
    /\ Completed(p, {"allocate"}) /\ Completed(q, {"allocate"})
    /\ frame[p].userId = frame[q].userId /\ frame[p].categoryId = frame[q].categoryId
    /\ frame[p].retKind = "set" /\ frame[q].retKind = "set"
    /\ frame[p].retValue = frame[q].retValue
    /\ Includes(List(frame[p].userId, frame[p].categoryId), frame[p].retValue)

\* C5: pool-isolation.  When an allocation has completed, with a set id or
\* with null, with or without an eviction, the pool list and the pool metadata
\* of every category are as they were when it began.
C5_PoolIsolation ==
  \A p \in Procs :
    Completed(p, {"allocate"}) =>
      /\ queue = snap[p].queue
      /\ queueMeta = snap[p].queueMeta

\* C5 witness: an allocation that evicted and returned a set from a pool
\* holding several sets has completed.
C5_Witness ==
  \E p \in Procs :
    /\ Completed(p, {"allocate"})
    /\ frame[p].retKind = "set"
    /\ frame[p].removedCount > 0
    /\ Len(queue[frame[p].categoryId]) > 1

\* C6 (as claimed): exactly-at-cap allocation.  When the user held exactly
\* MAX_SETS_PER_CATEGORY sets and the allocation returned a set, the final list
\* is the old list without its first entry, followed by the returned set.
C6_ExactlyAtCap ==
  \A p \in Procs :
    ( /\ Completed(p, {"allocate"})
      /\ frame[p].retKind = "set"
      /\ Len(ListBefore(p)) = CACHE_CONFIG.MAX_SETS_PER_CATEGORY )
    => List(frame[p].userId, frame[p].categoryId)
         = Append(Tail(ListBefore(p)), frame[p].retValue)

\* C7: eviction-oldest-first.  When a completed eviction found n > MAX sets in
\* the list, it removed the first n - MAX of them; if none of the others was
\* aged, the list it left is the last MAX entries in their order and
\* removedCount = n - MAX.
C7_EvictionOldestFirst ==
  \A p \in Procs :
    Completed(p, {"allocate", "evict"}) =>
      LET before == ListBefore(p)
          n == Len(before)
          k == n - CACHE_CONFIG.MAX_SETS_PER_CATEGORY
      IN  k > 0 =>
            /\ Len(frame[p].removedSets) >= k
            /\ SubSeq(frame[p].removedSets, 1, k) = SubSeq(before, 1, k)
            /\ \A i \in 1..k : ~Includes(ListAfterEviction(p), before[i])
            /\ (\A i \in (k + 1)..n : ~AgedBefore(p, before[i])) =>
                 /\ ListAfterEviction(p) = SubSeq(before, k + 1, n)
                 /\ frame[p].removedCount = k

\* C7 witness: a standalone eviction that found at least two sets more than
\* MAX, none of the others aged, has completed.
C7_Witness ==
  \E p \in Procs :
    /\ Completed(p, {"evict"})
    /\ Len(ListBefore(p)) >= CACHE_CONFIG.MAX_SETS_PER_CATEGORY + 2
    /\ frame[p].removedCount = Len(ListBefore(p)) - CACHE_CONFIG.MAX_SETS_PER_CATEGORY
    /\ Len(List(frame[p].userId, frame[p].categoryId)) = CACHE_CONFIG.MAX_SETS_PER_CATEGORY

\* C8: age-cap.  After a completed allocation or eviction of (u, c), every
\* assignedAt timestamp of a set in the list of (u, c) is at or after the
\* horizon now - MAX_AGE_MONTHS.
C8_AgeCap ==
  \A p \in Procs :
    Completed(p, {"allocate", "evict"}) =>
      LET c == frame[p].categoryId
          ts == userTimestamps[frame[p].userId]
      IN  \A s \in Range(List(frame[p].userId, c)) :
            TsField(c, s) \in DOMAIN ts => ts[TsField(c, s)] >= Horizon

\* C8 witness: a call that removed an aged set and left a set with a
\* timestamp in the list has completed.
C8_Witness ==
  \E p \in Procs :
    /\ Completed(p, {"allocate", "evict"})
    /\ \E s \in Range(frame[p].removedSets) : AgedBefore(p, s)
    /\ \E s \in Range(ListAfterEviction(p)) :
         TsField(frame[p].categoryId, s) \in DOMAIN userTimestamps[frame[p].userId]

\* C9: age eviction removes exactly the aged entries.  Of the entries the
\* count-cap did not mark, a completed eviction removed those and only those
\* whose assignedAt was strictly before the horizon (one equal to the horizon
\* is kept), and removedCount is the number of entries removed.
C9_AgeEvictionExact ==
  \A p \in Procs :
    Completed(p, {"evict"}) =>
      LET before == ListBefore(p)
          n == Len(before)
          excess == n - CACHE_CONFIG.MAX_SETS_PER_CATEGORY
          k == IF excess > 0 THEN excess ELSE 0
          after == List(frame[p].userId, frame[p].categoryId)
      IN  /\ \A i \in (k + 1)..n : Includes(after, before[i]) <=> ~AgedBefore(p, before[i])
          /\ frame[p].removedCount = n - Len(after)

\* C9 witness: a standalone eviction has completed that removed an aged set
\* outside the excess and kept a set assigned exactly at the horizon.
C9_Witness ==
  \E p \in Procs :
    /\ Completed(p, {"evict"})
    /\ Len(ListBefore(p)) <= CACHE_CONFIG.MAX_SETS_PER_CATEGORY
    /\ \E s \in Range(ListBefore(p)) :
         AgedBefore(p, s) /\ ~Includes(List(frame[p].userId, frame[p].categoryId), s)
    /\ \E s \in Range(List(frame[p].userId, frame[p].categoryId)) :
         /\ TsField(frame[p].categoryId, s) \in DOMAIN snap[p].timestamps
         /\ snap[p].timestamps[TsField(frame[p].categoryId, s)] = Horizon

\* C10 (as claimed): error surface.  When an allocation has failed, the
\* user's list, timestamp map and metadata are as they were when it began.
C10_NoPartialWrite ==
  \A p \in Procs :
    (pc[p] = "done" /\ frame[p].op = "allocate" /\ frame[p].retKind = "error") =>
      /\ userAllocations[frame[p].userId] = snap[p].allocations
      /\ userTimestamps[frame[p].userId] = snap[p].timestamps
      /\ userMeta[frame[p].userId] = snap[p].meta

\* no call is in progress
Quiescent == \A p \in Procs : ~InFlight(p)

\* the set ids that have an assignedAt entry for category c in the timestamp map of u
Stamped(u, c) ==
  {f[2] : f \in {g \in DOMAIN userTimestamps[u] : g[1] = c}}

\* C11: timestamp/list correspondence.  Between the calls of any sequence of
\* completed allocations and timestamp-based evictions, the timestamp map of a
\* user has an entry for (c, s) exactly when s is in the user's list for c,
\* and the list holds s once.
C11_TimestampListCorrespondence ==
  Quiescent =>
    \A u \in Users, c \in Cats :
      /\ Stamped(u, c) = Range(List(u, c))
      /\ NoDuplicates(List(u, c))

\* C11 witness: an eviction that removed a set and kept another has completed,
\* so that a timestamp was deleted and one remains.
C11_Witness ==
  \E p \in Procs :
    /\ Completed(p, {"evict"})
    /\ frame[p].removedCount > 0
    /\ Stamped(frame[p].userId, frame[p].categoryId) # {}

\* the per-category counter in the metadata of u, an absent one counting as 0
Count(u, c) ==
  IF MetaField(c, "count") \in DOMAIN userMeta[u]
    THEN userMeta[u][MetaField(c, "count")]
    ELSE 0

\* C12: counter/list agreement.  Between the calls of any sequence of
\* completed allocations, evictions and resets, the count stored for (u, c)
\* equals the length of the list of (u, c).
C12_CounterListAgreement ==
  Quiescent =>
    \A u \in Users, c \in Cats : Count(u, c) = Len(List(u, c))

\* C12 witness: an eviction has completed that shortened a list to a
\* non-empty one, after which the counter is positive.
C12_Witness ==
  \E p \in Procs :
    /\ Completed(p, {"evict"})
    /\ frame[p].removedCount > 0
    /\ Count(frame[p].userId, frame[p].categoryId) > 0

\* C13: batch allocation isolates failures.  When allocateSetsForUser of an
\* initialized allocator has gone through its loop, it has called the
\* allocation once per listed category in list order, every category is in
\* successful or in failed, and successful + failed = requested = the number
\* of listed categories; the call does not throw.
C13_BatchIsolatesFailures ==
  /\ (isInitialized /\ results.pc # "idle") => results.pc # "thrown"
  /\ results.pc = "done" =>
       /\ results.calls = results.categoryIds
       /\ \A j \in 1..Len(results.categoryIds) :
            results.categoryIds[j] \in DOMAIN results.successful \cup DOMAIN results.failed
       /\ results.requested = Len(results.categoryIds)
       /\ results.nSuccessful + results.nFailed = results.requested

\* C13 witness: a batch over two categories is through, the allocation of the
\* first threw, the second returned a set.
C13_Witness ==
  /\ results.pc = "done"
  /\ Len(results.categoryIds) = 2
  /\ results.categoryIds[1] \in DOMAIN results.failed
  /\ results.failed[results.categoryIds[1]] = "error.message"
  /\ results.nSuccessful = 1
  /\ results.nFailed = 1

\* C14: pool exhausted.  A completed allocation returned null exactly when
\* every set of the pool of c was in the user's list as the eviction left it
\* (an empty pool included); it then appended nothing and wrote no timestamp,
\* and when it evicted nothing the user's record is as it was.
C14_PoolExhausted ==
  \A p \in Procs :
    Completed(p, {"allocate"}) =>
      LET u == frame[p].userId
          c == frame[p].categoryId
          afterEviction == FilterNotIn(ListBefore(p), frame[p].removedSets)
      IN  /\ (frame[p].retKind = "null")
               <=> (Range(queue[c]) \subseteq Range(afterEviction))
          /\ frame[p].retKind = "null" =>
               /\ List(u, c) = FilterNotIn(ListBefore(p), frame[p].removedSets)
               /\ \A f \in DOMAIN userTimestamps[u] :
                    /\ f \in DOMAIN snap[p].timestamps
                    /\ userTimestamps[u][f] = snap[p].timestamps[f]
               /\ frame[p].removedCount = 0 =>
                    /\ userAllocations[u] = snap[p].allocations
                    /\ userTimestamps[u] = snap[p].timestamps
                    /\ userMeta[u] = snap[p].meta

\* C14 witness: an allocation has returned null to a user who holds every
\* set of a non-empty pool.
C14_Witness ==
  \E p \in Procs :
    /\ Completed(p, {"allocate"})
    /\ frame[p].retKind = "null"
    /\ Len(queue[frame[p].categoryId]) > 1
    /\ Len(List(frame[p].userId, frame[p].categoryId)) > 1

\* C14 witness, second case: an allocation has returned null from an empty pool.
C14_WitnessEmptyPool ==
  \E p \in Procs :
    /\ Completed(p, {"allocate"})
    /\ frame[p].retKind = "null"
    /\ queue[frame[p].categoryId] = <<>>

\* C15 (as claimed): successive sets until catch-up.  With the pool of a
\* category left alone, an allocation of a user returns a set id that an
\* earlier allocation returned only when the user has been handed every set
\* of the pool.
C15_SuccessiveSets ==
  \A u \in Users, c \in Cats :
    \A j \in 1..Len(handed[u][c]) :
      LET earlier == {handed[u][c][i] : i \in 1..(j - 1)}
      IN  handed[u][c][j] \in earlier => Range(queue[c]) \subseteq earlier

\* the items of the catalog that build request b stored for the category it
\* has just been through, in the order of their puts
StoredBy(b) ==
  SelectSeq(catalog, LAMBDA e : Includes(bframe[b].storedSets, e.id))

\* C16: builder partitioning.  When a build request is through a category
\* without a failure, having read m questions sorted ascending by id, it has
\* stored exactly N = min(numSetsPerCategory, m div questionsPerSet) sets;
\* set j (from 0) holds the questions j*k+1 .. (j+1)*k of that order, so every
\* set has k of them, the questions after the first N*k are in no set, and
\* with m < k nothing is stored.
C16_BuilderPartitioning ==
  \A b \in Builders :
    bpc[b] = "next" =>
      LET f == bframe[b]
          q == f.questions
          k == f.questionsPerSet
          N == IF f.numSetsPerCategory <= Len(q) \div k
                 THEN f.numSetsPerCategory ELSE Len(q) \div k
          emitted == StoredBy(b)
      IN  /\ \A i, j \in 1..Len(q) : i < j => q[i] < q[j]
          /\ Len(emitted) = N
          /\ Len(catalog) >= N
          /\ SubSeq(catalog, Len(catalog) - N + 1, Len(catalog)) = emitted
          /\ \A j \in 1..N :
               /\ emitted[j].category_id = Categories[f.ci]
               /\ emitted[j].question_ids = SubSeq(q, (j - 1) * k + 1, j * k)
          /\ Len(q) < k => emitted = <<>>

\* C16 witness: a build request is through a category for which it stored two
\* sets and left a remainder.
C16_Witness ==
  \E b \in Builders :
    /\ bpc[b] = "next"
    /\ Len(StoredBy(b)) = 2
    /\ Len(bframe[b].questions) > 2 * bframe[b].questionsPerSet

\* C16 witness, second case: a build request has passed a category with
\* questions, but fewer than one set needs.
C16_WitnessTooFew ==
  \E b \in Builders :
    /\ bpc[b] = "next"
    /\ bframe[b].questions # <<>>
    /\ Len(bframe[b].questions) < bframe[b].questionsPerSet

\* the items of the catalog for category c, in the order of their puts
SetsOf(c) == SelectSeq(catalog, LAMBDA e : e.category_id = c)

\* the greatest watermark stored on the sets of category c, 0 when it has none
MaxWatermark(c) ==
  LET offsets == {SetsOf(c)[i].offset : i \in 1..Len(SetsOf(c))}
  IN  IF offsets = {} THEN 0 ELSE CHOOSE x \in offsets : \A y \in offsets : y <= x

\* C17 (as claimed): builder-monotonic-watermark.  The watermarks stored on
\* the sets of a category never decrease in the order the sets were stored.
C17_MonotonicWatermark ==
  \A c \in Cats :
    \A i, j \in 1..Len(SetsOf(c)) :
      i < j => SetsOf(c)[i].offset <= SetsOf(c)[j].offset

\* C18 (as claimed): the builder resumes without re-reading.  A build reads
\* the questions of a category from the greatest watermark stored for the
\* category, and no question is referenced by two sets of the category.
C18_ResumeWithoutRereading ==
  /\ \A b \in Builders :
       bpc[b] = "questions" =>
         bframe[b].lastReadQuestionId = MaxWatermark(Categories[bframe[b].ci])
  /\ \A c \in Cats :
       \A i, j \in 1..Len(SetsOf(c)) :
         i # j => Range(SetsOf(c)[i].question_ids) \cap Range(SetsOf(c)[j].question_ids) = {}

\* the questions referenced by the sets build request b stored for the
\* category it is in
Consumed(b) ==
  UNION {Range(StoredBy(b)[i].question_ids) : i \in 1..Len(StoredBy(b))}

\* C19 (as claimed): builds on the same category are serialized.  Two build
\* requests that run at the same time never store sets of one category that
\* reference the same question.
C19_BuildsSerialized ==
  \A a, b \in Builders :
    ( /\ a # b
      /\ bframe[a].overlapped /\ bframe[b].overlapped
      /\ bframe[a].ci = bframe[b].ci )
    => Consumed(a) \cap Consumed(b) = {}

\* C20 (as claimed): builder failure handling.  A build request that met a
\* rejected put or a rejected enqueue in one category still goes through the
\* categories after it: when it is over, its loop has been through every
\* category.
C20_BuilderContinues ==
  \A b \in Builders :
    (bpc[b] = "done" /\ bframe[b].outcome # "scan error") =>
      bframe[b].ci > Len(Categories)

\* the set is an item of the catalog
InCatalog(id) == \E i \in 1..Len(catalog) : catalog[i].id = id

\* the set is in the pool of its category
Offerable(id) ==
  \E i \in 1..Len(catalog) :
    catalog[i].id = id /\ Includes(queue[catalog[i].category_id], id)

\* no build is running and the set is in the catalog but not in its pool
Orphaned(id) ==
  /\ \A b \in Builders : bpc[b] = "idle"
  /\ InCatalog(id)
  /\ ~Offerable(id)

NewHashes ==
  {h \in Range(sq.preparedQuestions) : sq.before[1][h] = 0}

\* C22 (as claimed): idempotent dedupe on ingest.  storeQuestions stores as
\* many items as there are distinct hashes among its questions whose hash
\* was not in the table, and reports every other question as skipped.
C22_IdempotentDedupe ==
  sq.pc = "done" =>
    /\ sq.results.stored = Cardinality(NewHashes)
    /\ sq.results.skipped = sq.results.total - sq.results.stored
    /\ \A h \in Hashes :
         hashIndex[h] = sq.before[1][h] + (IF h \in NewHashes THEN 1 ELSE 0)

\* total_available of category c, an absent field counting as 0
TotalAvailable(c) ==
  IF "total_available" \in DOMAIN queueMeta[c] THEN queueMeta[c]["total_available"] ELSE 0

\* C23 (as claimed): pool metadata atomicity.  Once the enqueues and
\* dequeues on a category have all completed, whatever their interleaving,
\* total_available is the length of the pool list of the category.
C23_PoolMetadataAtomic ==
  Quiescent => \A c \in Cats : TotalAvailable(c) = Len(queue[c])

PoolBefore(p) == snap[p].queue[frame[p].categoryId]

\* the set of the list that was added first: set ids are numbered in the
\* order of their creation, inside a batch in array order, and a batch is
\* enqueued before the next one is created
EarliestAdded(list) == CHOOSE s \in Range(list) : \A x \in Range(list) : s <= x

\* C25: the destructive dequeue is FIFO.  A completed getNextSetFromQueue(c)
\* returns null and leaves the pool empty when the pool was empty; otherwise
\* it returns the set that was added first among those in the pool and the
\* pool is left with the others, in their order.
C25_DequeueFifo ==
  \A p \in Procs :
    Completed(p, {"dequeue"}) =>
      LET c == frame[p].categoryId
          before == PoolBefore(p)
      IN  IF before = <<>>
            THEN frame[p].retKind = "null" /\ queue[c] = <<>>
            ELSE /\ frame[p].retKind = "set"
                 /\ frame[p].retValue = EarliestAdded(before)
                 /\ queue[c] = SelectSeq(before, LAMBDA s : s # frame[p].retValue)

\* a dequeue has returned a set from a pool of two batches, the second of
\* two sets
C25_Witness ==
  /\ Completed(1, {"dequeue"})
  /\ frame[1].retKind = "set"
  /\ PoolBefore(1) = <<3, 2, 1>>

\* a dequeue on an empty pool has returned null
C25_WitnessEmpty ==
  /\ Completed(1, {"dequeue"})
  /\ frame[1].retKind = "null"

\* C26 (as claimed): a reset clears the entire allocation record.  When
\* clearUserAllocations(u) has completed, u has no list, no metadata and no
\* assignedAt timestamp, and the pool and the records of the other users are
\* as they were when the call began.
C26_ResetClearsRecord ==
  \A p \in Procs :
    Completed(p, {"clear"}) =>
      LET u == frame[p].userId
      IN  /\ userAllocations[u] = EmptyHash
          /\ userMeta[u] = EmptyHash
          /\ userTimestamps[u] = EmptyHash
          /\ queue = snap[p].queue
          /\ queueMeta = snap[p].queueMeta
          /\ \A v \in Users \ {u} :
               /\ userAllocations[v] = EmptyHash
               /\ userMeta[v] = EmptyHash
               /\ userTimestamps[v] = EmptyHash

\* the assignedAt times of category c in the timestamp hash h, per set id
StampsOf(h, c) ==
  [s \in {f[2] : f \in {g \in DOMAIN h : g[1] = c}} |-> h[TsField(c, s)]]

\* what the allocation of p makes of the record it found when it began, run
\* on its own: the sets it evicts, the set it returns, the list and the
\* timestamps of its category
SerialOutcome(p) ==
  LET c == frame[p].categoryId
      before == ListBefore(p)
      rem == SetsToRemove(before, c, snap[p].timestamps, Horizon,
                          CACHE_CONFIG.MAX_SETS_PER_CATEGORY)
      remaining == RemainingSets(before, rem)
      next == NextSet(LRangeAll(snap[p].queue[c]), remaining)
      kept == HDel(snap[p].timestamps, {TsField(c, s) : s \in Range(rem)})
  IN  [returned |-> next,
       list |-> IF next # 0 THEN Append(remaining, next) ELSE remaining,
       stamps |-> StampsOf(IF next # 0
                             THEN HSet(kept, [x \in {TsField(c, next)} |-> now])
                             ELSE kept, c)]

\* C27: allocations of one user on different categories may run in
\* parallel.  When the calls have completed, whatever their interleaving, the
\* list and the timestamps of the category of each are those the call
\* produces when it runs alone, and it has returned the same set.
C27_ParallelCategories ==
  (\A q \in Procs : ~InFlight(q)) =>
    \A p \in Procs :
      Completed(p, {"allocate"}) =>
        LET u == frame[p].userId
            c == frame[p].categoryId
            alone == SerialOutcome(p)
        IN  /\ List(u, c) = alone.list
            /\ StampsOf(userTimestamps[u], c) = alone.stamps
            /\ frame[p].retValue = alone.returned

\* two allocations of the user that overlapped have completed, each has
\* returned a set, and one of them has evicted a set
C27_Witness ==
  /\ \A p \in Procs : Completed(p, {"allocate"}) /\ frame[p].retKind = "set"
  /\ overlap[1] # {}
  /\ \E p \in Procs : frame[p].removedCount > 0

\* the sum of the removedCount values of the per-category results
RECURSIVE SumRemoved(_)
SumRemoved(categoryResults) ==
  IF DOMAIN categoryResults = {} THEN 0
  ELSE LET c == CHOOSE x \in DOMAIN categoryResults : TRUE
       IN  categoryResults[c].removedCount + SumRemoved(HDel(categoryResults, {c}))

\* C28: the standalone eviction covers all of a user's categories.  When
\* triggerCacheEvictionForUser(u) has completed, every category that had a
\* list in u's record has gone through the eviction rules once (its list is
\* the one it had without the sets the rules name, and they are its result),
\* categoriesProcessed is the number of those categories and totalRemoved is
\* the sum of the removedCount values.
C28_StandaloneEviction ==
  evictionSummary.pc = "done" =>
    LET u == evictionSummary.userId
        had == evictionSummary.allocations
        res == evictionSummary.categoryResults
    IN  /\ DOMAIN res = DOMAIN had
        /\ evictionSummary.categoriesProcessed = Cardinality(DOMAIN had)
        /\ evictionSummary.totalRemoved = SumRemoved(res)
        /\ \A c \in DOMAIN had :
             LET rem == SetsToRemove(had[c], c, evictionSummary.timestamps, Horizon,
                                     CACHE_CONFIG.MAX_SETS_PER_CATEGORY)
             IN  /\ res[c].removedSets = rem
                 /\ res[c].removedCount = Len(rem)
                 /\ List(u, c) = RemainingSets(had[c], rem)

\* a standalone eviction has completed for a user with lists in two
\* categories, and sets were removed in both
C28_Witness ==
  /\ evictionSummary.pc = "done"
  /\ evictionSummary.categoriesProcessed = 2
  /\ \A c \in DOMAIN evictionSummary.categoryResults :
       evictionSummary.categoryResults[c].removedCount > 0

\* a standalone eviction has completed for a user whose one list had two
\* sets more than the cap: one category processed, two sets removed
C28_WitnessCapPlusTwo ==
  /\ evictionSummary.pc = "done"
  /\ DOMAIN evictionSummary.allocations = {"c1"}
  /\ Len(evictionSummary.allocations["c1"]) = CACHE_CONFIG.MAX_SETS_PER_CATEGORY + 2
  /\ evictionSummary.categoriesProcessed = 1
  /\ evictionSummary.totalRemoved = 2

\* C29 (as claimed): a list entry left without an assignedAt timestamp (the
\* allocation stopped between the write of the list and the write of the
\* timestamp) is given its timestamp by the next call that reads the list:
\* when an allocation or an eviction of (u, c) has completed, every entry of
\* the list of (u, c) has a timestamp.
C29_ReconciledOnRead ==
  \A p \in Procs :
    Completed(p, {"allocate", "evict"}) =>
      Range(List(frame[p].userId, frame[p].categoryId))
        \subseteq Stamped(frame[p].userId, frame[p].categoryId)

\* the value of a field of the metadata of u, 0 when the field is absent
MetaOf(u, fld) == IF fld \in DOMAIN userMeta[u] THEN userMeta[u][fld] ELSE 0

\* the list the eviction at the head of the completed call of p leaves: the
\* list the call found without the sets the rules name
PostEvictionList(p) ==
  LET c == frame[p].categoryId
      had == ListBefore(p)
  IN  RemainingSets(had, SetsToRemove(had, c, snap[p].timestamps, Horizon,
                                      CACHE_CONFIG.MAX_SETS_PER_CATEGORY))

\* C30: the post-state of a successful allocation.  When
\* getNextAvailableSetForUser(u, c) has returned s, the list of (u, c) is the
\* post-eviction list with s appended at the end, the timestamp of (c, s) is
\* the time of the call, the count of c is the length of the new list and
\* last_allocated of c is s (and last_updated, overall and of c, is the time
\* of the call).
C30_AllocationPostState ==
  \A p \in Procs :
    (Completed(p, {"allocate"}) /\ frame[p].retKind = "set") =>
      LET u == frame[p].userId
          c == frame[p].categoryId
          s == frame[p].retValue
      IN  /\ List(u, c) = Append(PostEvictionList(p), s)
          /\ TsField(c, s) \in DOMAIN userTimestamps[u]
          /\ userTimestamps[u][TsField(c, s)] = now
          /\ MetaField(c, "count") \in DOMAIN userMeta[u]
          /\ Count(u, c) = Len(List(u, c))
          /\ MetaField(c, "last_allocated") \in DOMAIN userMeta[u]
          /\ userMeta[u][MetaField(c, "last_allocated")] = s
          /\ MetaOf(u, LastUpdatedField) = now
          /\ MetaOf(u, MetaField(c, "last_updated")) = now

\* an allocation has returned a set after its eviction removed a set and
\* kept another, at a time later than that of the sets kept
C30_Witness ==
  \E p \in Procs :
    /\ Completed(p, {"allocate"}) /\ frame[p].retKind = "set"
    /\ frame[p].removedCount > 0
    /\ Len(PostEvictionList(p)) > 0
    /\ now > 0

\* a is b with some of its entries left out, the others in their order
RECURSIVE IsSubsequence(_, _)
IsSubsequence(a, b) ==
  IF a = <<>> THEN TRUE
  ELSE IF b = <<>> THEN FALSE
  ELSE IF Head(a) = Head(b) THEN IsSubsequence(Tail(a), Tail(b))
  ELSE IsSubsequence(a, Tail(b))

\* C31: eviction is a monotonic reduction.  When an eviction (standalone, or
\* the one at the head of an allocation) has completed, the list it left is
\* the list it found with some entries left out and the others in their
\* order: it holds no set id the list did not have, and removedCount is the
\* difference of the two lengths.
C31_MonotonicReduction ==
  \A p \in Procs :
    Completed(p, {"allocate", "evict"}) =>
      /\ IsSubsequence(ListAfterEviction(p), ListBefore(p))
      /\ Range(ListAfterEviction(p)) \subseteq Range(ListBefore(p))
      /\ frame[p].removedCount = Len(ListBefore(p)) - Len(ListAfterEviction(p))

\* a standalone eviction has completed that removed a set and kept another
C31_Witness ==
  \E p \in Procs :
    /\ Completed(p, {"evict"})
    /\ frame[p].removedCount > 0
    /\ Len(List(frame[p].userId, frame[p].categoryId)) > 0
    /\ Len(ListBefore(p)) > Len(List(frame[p].userId, frame[p].categoryId))

\* C32: no empty list is stored.  In every state, a category is a field of a
\* user's record only with a list of at least one set; an eviction that
\* removes the last set of a category deletes the field.
C32_NoEmptyList ==
  \A u \in Users : \A c \in DOMAIN userAllocations[u] :
    Len(userAllocations[u][c]) > 0

\* an eviction has completed that removed every set of a list of two, and
\* the category is no longer a field of the user's record
C32_Witness ==
  \E p \in Procs :
    /\ Completed(p, {"evict"})
    /\ Len(ListBefore(p)) = 2
    /\ frame[p].removedCount = 2
    /\ frame[p].categoryId \notin DOMAIN userAllocations[frame[p].userId]

\* the call of p is an allocation or an eviction between two of its round trips
OnLedger(p) == InFlight(p) /\ frame[p].op \in {"allocate", "evict"}

\* C33: the ledger frame.  A step of getNextAvailableSetForUser(u, c) or of
\* applyCacheEvictionWithTimestamps(u, c) leaves the list and the timestamps
\* of every other category of u, and of every category of every other user,
\* as they were.
C33_LedgerFrame ==
  [][\A p \in Procs :
       (OnLedger(p) /\ pc'[p] # pc[p]) =>
         \A u \in Users, c \in Cats :
           (u # frame[p].userId \/ c # frame[p].categoryId) =>
             /\ List(u, c)' = List(u, c)
             /\ StampsOf(userTimestamps[u], c)' = StampsOf(userTimestamps[u], c)]_vars

\* an allocation that evicted a set has completed for a user who has a list
\* in the other category too, while the other user has a list as well
C33_Witness ==
  \E p \in Procs :
    /\ Completed(p, {"allocate"}) /\ frame[p].retKind = "set"
    /\ frame[p].removedCount > 0
    /\ \E c \in Cats \ {frame[p].categoryId} : Len(List(frame[p].userId, c)) > 0
    /\ \E u \in Users \ {frame[p].userId} : \E c \in Cats : Len(List(u, c)) > 0

\* C34: the merge path reuses the latest allocation.  When
\* getOrAllocateSetForUser(u, c) has returned: if the list of (u, c) it found
\* was not empty, it has returned the last set of that list and the record of
\* u and the pool are as it found them (no eviction, no append); if the list
\* was empty, it has done what one getNextAvailableSetForUser(u, c) does, and
\* the list holds the returned set alone (or nothing when the pool is empty).
C34_MergeReusesLatest ==
  \A p \in Procs :
    Completed(p, {"merge"}) =>
      LET u == frame[p].userId
          c == frame[p].categoryId
          before == ListBefore(p)
      IN  IF Len(before) > 0
            THEN /\ frame[p].retKind = "set"
                 /\ frame[p].retValue = before[Len(before)]
                 /\ userAllocations[u] = snap[p].allocations
                 /\ userTimestamps[u] = snap[p].timestamps
                 /\ userMeta[u] = snap[p].meta
                 /\ queue = snap[p].queue
            ELSE /\ frame[p].retValue = SerialOutcome(p).returned
                 /\ List(u, c) = SerialOutcome(p).list
                 /\ StampsOf(userTimestamps[u], c) = SerialOutcome(p).stamps
                 /\ Len(List(u, c)) <= 1
                 /\ frame[p].retKind = "set" => List(u, c) = <<frame[p].retValue>>

\* a merge has returned the last set of a list of two sets, the first of
\* them older than the age limit, and has left both in the list
C34_Witness ==
  \E p \in Procs :
    /\ Completed(p, {"merge"})
    /\ Len(ListBefore(p)) = 2
    /\ AgedBefore(p, ListBefore(p)[1])
    /\ Len(List(frame[p].userId, frame[p].categoryId)) = 2

\* a merge that found no list has allocated a set
C34_WitnessAllocated ==
  \E p \in Procs :
    /\ Completed(p, {"merge"})
    /\ Len(ListBefore(p)) = 0
    /\ frame[p].retKind = "set"

\* the assignedAt timestamp of set s in category c of user u
AssignedAt(u, c, s) == userTimestamps[u][TsField(c, s)]

\* C35: the allocation order is the timestamp order.  Between the calls of
\* any sequence of completed allocations and evictions, the clock never
\* going back, the assignedAt timestamps of the sets of a list do not
\* decrease along the list: the sets the cap rule removes first are those
\* with the oldest timestamps.
C35_ListInTimestampOrder ==
  Quiescent =>
    \A u \in Users, c \in Cats :
      \A i, j \in 1..Len(List(u, c)) :
        ( /\ i < j
          /\ TsField(c, List(u, c)[i]) \in DOMAIN userTimestamps[u]
          /\ TsField(c, List(u, c)[j]) \in DOMAIN userTimestamps[u] )
        => AssignedAt(u, c, List(u, c)[i]) <= AssignedAt(u, c, List(u, c)[j])

\* between calls, a list holds two sets assigned at different times, after an
\* eviction has removed a set
C35_Witness ==
  /\ Quiescent
  /\ \E u \in Users, c \in Cats :
       /\ Len(List(u, c)) >= 2
       /\ Stamped(u, c) = Range(List(u, c))
       /\ AssignedAt(u, c, List(u, c)[1]) < AssignedAt(u, c, List(u, c)[2])
       /\ MetaField(c, "evicted_count") \in DOMAIN userMeta[u]

\* C36 (as claimed): returned sets are recorded.  When an allocation of
\* (u, c) and an eviction of (u, c) (standalone, or the one at the head of
\* another allocation) have overlapped and both have completed, every set an
\* allocation returned, unless the other call chose it for removal, is in the
\* list of (u, c), has a timestamp, and the count is the length of the list.
C36_ReturnedSetsRecorded ==
  \A p, q \in Procs :
    ( /\ p # q
      /\ q \in overlap[p]
      /\ Completed(p, {"allocate"}) /\ frame[p].retKind = "set"
      /\ Completed(q, {"allocate", "evict"})
      /\ frame[q].userId = frame[p].userId
      /\ frame[q].categoryId = frame[p].categoryId
      /\ ~Includes(frame[q].removedSets, frame[p].retValue) )
    => LET u == frame[p].userId
           c == frame[p].categoryId
       IN  /\ Includes(List(u, c), frame[p].retValue)
           /\ frame[p].retValue \in Stamped(u, c)
           /\ Stamped(u, c) = Range(List(u, c))
           /\ Count(u, c) = Len(List(u, c))

\* C37 (as claimed): ledger key isolation.  The three keys of a user are all
\* different from the three keys of any other user, whatever the ids hold:
\* no key is used by the calls of two users.
C37_KeyIsolation ==
  \A e, f \in keyspace : e[1] = f[1] => e[2] = f[2]

\* C38 (as claimed): batch result consistency.  For every list of
\* categories, one that names a category twice included, the result of
\* allocateSetsForUser has summary.successful = the number of keys of
\* successful, summary.failed = the number of keys of failed, and no
\* category is a key of both maps.
C38_BatchResultConsistent ==
  results.pc = "done" =>
    /\ results.nSuccessful = Cardinality(DOMAIN results.successful)
    /\ results.nFailed = Cardinality(DOMAIN results.failed)
    /\ DOMAIN results.successful \cap DOMAIN results.failed = {}

\* C39 (as claimed): the availability check agrees with the allocation and
\* is read-only.  checkAvailability(u, [c]) leaves the ledger and the pool
\* as they were, and it reports hasNewSets = true for c exactly when the
\* getNextAvailableSetForUser(u, c) issued right after it returns a set.
C39_AvailabilityAgrees ==
  /\ availability.pc = "done" => store = availability.before[1]
  /\ (availability.pc = "await" /\ Completed(1, {"allocate"})) =>
       (availability.hasNewSets <=> frame[1].retKind = "set")

====
